---- MODULE Spec2Model ----
(***************************************************************************)
(* Model of the zep-web-interface deletion / caching core:                 *)
(*   - internal/cache      Cache (Set / Get / Delete / cleanup)            *)
(*   - internal/handlers   UserGraphAsync, UserEpisodesAsync (async.go)    *)
(*   - internal/handlers   DeletionTracker, DeleteUserEnhanced             *)
(*                         (deletion.go)                                   *)
(*   - zepapi Client       DeleteUserWithCleanup, DeleteUserGraphData      *)
(*                                                                         *)
(* Time is counted in minutes.  Every sync.Mutex / RWMutex critical        *)
(* section is one atomic action; every network call is a step of its own   *)
(* whose outcome is chosen by the environment.                             *)
(***************************************************************************)
EXTENDS Integers, Sequences, FiniteSets, TLC

VARIABLES
    items,      \* Cache.items: key -> CacheItem (a partial map)
    now,        \* time.Now(), in minutes since the cache was created
    nextSweep,  \* the time of the next tick of cleanup's 5-minute ticker
    getRes,     \* the return value of the last direct Cache.Get call since the last write
    lastWrite,  \* the last Set / Delete / sweep made by CallSet, CallDelete, Sweep (history)
    threads,    \* cache caller -> its position around the cache's RWMutex
    kind,       \* which async loader the async requests address
    apc,        \* async request -> its position in UserGraphAsync / UserEpisodesAsync
    aresp,      \* the response most recently written by an async handler
    loaders,    \* background load goroutine -> its position and fetch result
    pages,      \* page request -> its position in UserGraph / UserGraphAPI / UserEpisodesAPI
    presp,      \* the response most recently produced by a page handler
    statuses,   \* DeletionTracker.statuses: userID -> DeletionStatus (a partial map)
    pc,         \* deletion run -> its position in DeleteUserEnhanced
    loc,        \* deletion run -> the locals of its goroutine
    timers,     \* deletion run -> state of the auto-cleanup goroutine it scheduled
    hist,       \* deletion run -> what its downstream calls returned (history)
    probe,      \* one call of Client.DeleteUserGraphData: position, requests made, return value
    fan,        \* one run of DeleteUserWithCleanup's session loop: position, calls, outcomes
    poll,       \* one DeletionStatus request: position, the fields it has read, its response
    dsess       \* one call of Client.DeleteSession: position, requests made, return value

vars == <<items, now, nextSweep, getRes, lastWrite, threads, kind, apc, aresp, loaders,
          pages, presp,
          statuses, pc, loc, timers, hist, probe, fan, poll, dsess>>

cacheVars == <<items, now, nextSweep, getRes, lastWrite, threads>>
asyncVars == <<kind, apc, aresp, loaders, pages, presp>>
pageVars  == <<pages, presp>>
delVars   == <<statuses, pc, loc, timers, hist>>
callVars  == <<probe, fan, poll, dsess>>

(***************************************************************************)
(* Bounds of the model                                                     *)
(***************************************************************************)
MaxTimeCache == 7      \* horizon of the clock when the cache is driven directly
MaxTimeAsync == 35     \* horizon of the clock for the async loaders
AsyncTickStep == 5     \* granularity of the clock for the async loaders
MaxSessions == 1       \* most sessions GetUserSessions returns
MaxListed == 5         \* most sessions in the list when the session loop runs on its own

Users == {"u1"}
Nil == "nil"

(***************************************************************************)
(* internal/cache/cache.go                                                 *)
(***************************************************************************)
CleanupInterval == 5   \* time.NewTicker(5 * time.Minute)

\* Cache.Set that leaves the expiry of an existing entry alone (a mutant of Set)
SetKeepExpiry(m, key, data, duration) ==
    [k \in (DOMAIN m) \cup {key} |->
        IF k # key THEN m[k]
        ELSE IF key \in DOMAIN m THEN [Data |-> data, ExpiresAt |-> m[key].ExpiresAt]
        ELSE [Data |-> data, ExpiresAt |-> now + duration]]

\* Cache.Set: c.items[key] = CacheItem{data, time.Now().Add(duration)}
Set(m, key, data, duration) ==
    [k \in (DOMAIN m) \cup {key} |->
        IF k = key THEN [Data |-> data, ExpiresAt |-> now + duration] ELSE m[k]]

\* Cache.Get without the expiry test (a mutant of Get)
GetNoExpiry(m, key) ==
    IF key \notin DOMAIN m THEN [data |-> Nil, found |-> FALSE]
    ELSE [data |-> m[key].Data, found |-> TRUE]

\* Cache.Get: (nil, false) for an absent key and for one whose ExpiresAt has
\* passed (time.Now().After(item.ExpiresAt)), (item.Data, true) otherwise
Get(m, key) ==
    IF key \notin DOMAIN m THEN [data |-> Nil, found |-> FALSE]
    ELSE IF now > m[key].ExpiresAt THEN [data |-> Nil, found |-> FALSE]
    ELSE [data |-> m[key].Data, found |-> TRUE]

\* Cache.Delete that removes the key only once it has expired (a mutant of Delete)
DeleteIfExpired(m, key) ==
    [k \in {x \in DOMAIN m : x # key \/ ~(now > m[x].ExpiresAt)} |-> m[k]]

\* Cache.Delete: delete(c.items, key)
Delete(m, key) == [k \in (DOMAIN m) \ {key} |-> m[k]]

\* a pass that tests !now.Before(item.ExpiresAt) instead of now.After (a mutant
\* of cleanup): it also removes the entries that expire at this very instant
cleanupEager(m) == [k \in {x \in DOMAIN m : now < m[x].ExpiresAt} |-> m[k]]

\* one pass of Cache.cleanup's loop body
cleanup(m) == [k \in {x \in DOMAIN m : ~(now > m[x].ExpiresAt)} |-> m[k]]

EmptyMap == [k \in {} |-> Nil]

(***************************************************************************)
(* The cache driven directly through its API                               *)
(***************************************************************************)
DirectKeys == {"a", "b"}
DirectData == {"v1", "v2"}
DirectDurations == {1, 3}

NoGet == [key |-> Nil, data |-> Nil, found |-> FALSE, at |-> 0]
NoWrite == [op |-> "none", key |-> Nil, data |-> Nil, expires |-> 0, had |-> FALSE]

CallSet(k, d, ttl) ==
    /\ items' = Set(items, k, d, ttl)
    /\ lastWrite' = [op |-> "Set", key |-> k, data |-> d, expires |-> now + ttl,
                     had |-> k \in DOMAIN items]
    /\ getRes' = NoGet
    /\ UNCHANGED <<now, nextSweep, threads>>
    /\ UNCHANGED asyncVars /\ UNCHANGED delVars /\ UNCHANGED callVars

CallGet(k) ==
    /\ getRes' = [key |-> k, data |-> Get(items, k).data,
                  found |-> Get(items, k).found, at |-> now]
    /\ UNCHANGED <<items, now, nextSweep, lastWrite, threads>>
    /\ UNCHANGED asyncVars /\ UNCHANGED delVars /\ UNCHANGED callVars

CallDelete(k) ==
    /\ items' = Delete(items, k)
    /\ lastWrite' = [op |-> "Delete", key |-> k, data |-> Nil, expires |-> 0,
                     had |-> k \in DOMAIN items]
    /\ getRes' = NoGet
    /\ UNCHANGED <<now, nextSweep, threads>>
    /\ UNCHANGED asyncVars /\ UNCHANGED delVars /\ UNCHANGED callVars

\* for range ticker.C { lock; sweep; unlock }
Sweep ==
    /\ now >= nextSweep
    /\ items' = cleanup(items)
    /\ nextSweep' = nextSweep + CleanupInterval
    /\ lastWrite' = [op |-> "cleanup", key |-> Nil, data |-> Nil, expires |-> 0,
                     had |-> (DOMAIN cleanup(items) # DOMAIN items)]
    /\ getRes' = NoGet
    /\ UNCHANGED <<now, threads>>
    /\ UNCHANGED asyncVars /\ UNCHANGED delVars /\ UNCHANGED callVars

\* the clock advances by d minutes, up to the horizon
Tick(d, limit) ==
    /\ now + d <= limit
    /\ now' = now + d
    /\ UNCHANGED <<items, nextSweep, getRes, lastWrite, threads>>
    /\ UNCHANGED asyncVars /\ UNCHANGED delVars /\ UNCHANGED callVars

(***************************************************************************)
(* Initial state: NewCache(), the package-level deletionTracker, no request *)
(***************************************************************************)
Runs == {"r1", "r2"}
AsyncReqs == {"q1", "q2"}
LoaderIds == {"l1", "l2"}
Kinds == {"graph", "episodes"}
Threads == {"t1", "t2", "t3"}
PageReqs == {"p1"}

InitCacheVars ==
    /\ items = EmptyMap
    /\ now = 0
    /\ nextSweep = CleanupInterval
    /\ getRes = NoGet
    /\ lastWrite = NoWrite
    /\ threads = [t \in Threads |-> [pc |-> "idle", op |-> Nil, key |-> Nil]]

InitAsyncVars ==
    /\ kind = "graph"
    /\ apc = [q \in AsyncReqs |-> "idle"]
    /\ aresp = [req |-> Nil, val |-> Nil]
    /\ loaders = [l \in LoaderIds |-> [pc |-> "free", result |-> Nil, stale |-> FALSE]]
    /\ pages = [p \in PageReqs |-> [pc |-> "idle", mismatch |-> FALSE]]
    /\ presp = [req |-> Nil, from |-> "none", mismatch |-> FALSE, val |-> [Triplets |-> Nil]]

InitDelVars ==
    /\ statuses = EmptyMap
    /\ pc = [r \in Runs |-> "idle"]
    /\ loc = [r \in Runs |-> [userID |-> Nil, listErr |-> FALSE, sessions |-> 0,
                               n |-> 0, i |-> 0, url |-> 0, err |-> Nil,
                               nilSessions |-> FALSE]]
    /\ timers = [r \in Runs |-> "none"]
    /\ hist = [r \in Runs |-> [primary |-> Nil, failedSessions |-> {},
                                listFailed |-> FALSE, graphFailed |-> FALSE,
                                panicked |-> FALSE]]

\* no standalone call of DeleteUserGraphData or of the session loop is under way
NoProbe == [pc |-> "idle", url |-> 0, requests |-> << >>, db |-> << >>, ret |-> << >>]
NoFan == [pc |-> "idle", n |-> 0, i |-> 0, running |-> {}, outcomes |-> << >>]

\* no DeletionStatus request is under way
NoSnap == [Status |-> Nil, Progress |-> 0, Message |-> Nil, Error |-> Nil]
NoPoll == [pc |-> "idle", user |-> Nil, snap |-> NoSnap, seen |-> {}, resp |-> Nil]

\* no DeleteSession call has been made
NoDeleteSession == [pc |-> "idle", sessionID |-> Nil, endpoint |-> 0,
                    requests |-> << >>, lastErr |-> Nil, ret |-> Nil]

InitCallVars ==
    /\ probe = NoProbe
    /\ fan = NoFan
    /\ poll = NoPoll
    /\ dsess = NoDeleteSession

Init == InitCacheVars /\ InitAsyncVars /\ InitDelVars /\ InitCallVars

NextCache ==
    \/ \E k \in DirectKeys, d \in DirectData, ttl \in DirectDurations : CallSet(k, d, ttl)
    \/ \E k \in DirectKeys : CallGet(k)
    \/ \E k \in DirectKeys : CallDelete(k)
    \/ Sweep
    \/ Tick(1, MaxTimeCache)

SpecCache == Init /\ [][NextCache]_vars

(***************************************************************************)
(* internal/cache/cache.go: the cache's sync.RWMutex.  Each caller takes   *)
(* the lock its operation takes, touches the map, and unlocks.             *)
(***************************************************************************)
LockOps == {"Set", "Get", "Delete", "cleanup"}

\* Delete taking the read lock (a mutant of LockKind)
LockKindDeleteRead(op) == IF op \in {"Get", "Delete"} THEN "R" ELSE "W"

\* Get: c.mutex.RLock(); Set, Delete and a pass of cleanup: c.mutex.Lock()
LockKind(op) == IF op = "Get" THEN "R" ELSE "W"

\* t is between the return of its Lock / RLock and its Unlock / RUnlock
Holds(t) == threads[t].pc \in {"locked", "unlocking"}

ThreadUnchanged == UNCHANGED <<now, nextSweep, lastWrite>> /\ UNCHANGED asyncVars /\ UNCHANGED delVars /\ UNCHANGED callVars

\* a goroutine calls Set, Get or Delete, or the ticker starts a pass of cleanup
ThreadCall(t, op, k) ==
    /\ threads[t].pc = "idle"
    /\ threads' = [threads EXCEPT ![t] = [pc |-> "waiting", op |-> op,
                                          key |-> IF op = "cleanup" THEN Nil ELSE k]]
    /\ UNCHANGED <<items, getRes>> /\ ThreadUnchanged

\* sync.RWMutex: RLock returns when no writer holds the lock, Lock when nobody
\* holds it (a waiting writer also holds new readers back, which only removes
\* interleavings)
ThreadLock(t) ==
    /\ threads[t].pc = "waiting"
    /\ IF LockKind(threads[t].op) = "R"
       THEN \A u \in Threads \ {t} : Holds(u) => LockKind(threads[u].op) = "R"
       ELSE \A u \in Threads \ {t} : ~Holds(u)
    /\ threads' = [threads EXCEPT ![t].pc = "locked"]
    /\ UNCHANGED <<items, getRes>> /\ ThreadUnchanged

\* the body of the operation, under the lock
ThreadAccess(t) ==
    /\ threads[t].pc = "locked"
    /\ threads' = [threads EXCEPT ![t].pc = "unlocking"]
    /\ LET op == threads[t].op
           k == threads[t].key IN
       CASE op = "Get" ->
              /\ getRes' = [key |-> k, data |-> Get(items, k).data,
                            found |-> Get(items, k).found, at |-> now]
              /\ UNCHANGED items
         [] op = "Set" ->
              /\ \E d \in DirectData, ttl \in DirectDurations : items' = Set(items, k, d, ttl)
              /\ getRes' = NoGet
         [] op = "Delete" ->
              /\ items' = Delete(items, k)
              /\ getRes' = NoGet
         [] op = "cleanup" ->
              /\ items' = cleanup(items)
              /\ getRes' = NoGet
    /\ ThreadUnchanged

\* defer c.mutex.Unlock() / RUnlock(), c.mutex.Unlock() at the end of a pass
ThreadUnlock(t) ==
    /\ threads[t].pc = "unlocking"
    /\ threads' = [threads EXCEPT ![t] = [pc |-> "idle", op |-> Nil, key |-> Nil]]
    /\ UNCHANGED <<items, getRes>> /\ ThreadUnchanged

NextLock ==
    \/ \E t \in Threads, op \in LockOps, k \in DirectKeys : ThreadCall(t, op, k)
    \/ \E t \in Threads : ThreadLock(t)
    \/ \E t \in Threads : ThreadAccess(t)
    \/ \E t \in Threads : ThreadUnlock(t)

SpecLock == Init /\ [][NextLock]_vars

(***************************************************************************)
(* internal/handlers/async.go: UserGraphAsync and UserEpisodesAsync        *)
(***************************************************************************)
\* fmt.Sprintf("graph:%s", userID) / fmt.Sprintf("episodes:%s", userID)
CacheKey(k, u) == k \o ":" \o u
\* fmt.Sprintf("graph:loading:%s", userID) / "episodes:loading:%s"
LoadingKey(k, u) == k \o ":loading:" \o u

\* the TTL of the loading sentinel: 10*time.Minute / 5*time.Minute
LoadingTTL(k) == IF k = "graph" THEN 10 ELSE 5
\* the TTL of a cached error result: 5*time.Minute / 2*time.Minute
ErrorTTL(k) == IF k = "graph" THEN 5 ELSE 2
\* the TTL of a cached success result: 30*time.Minute / 15*time.Minute
SuccessTTL(k) == IF k = "graph" THEN 30 ELSE 15
\* Progress of the "loading" answer when the sentinel is present: 50 / 70
PollProgress(k) == IF k = "graph" THEN 50 ELSE 70
\* Progress of the "loading" answer of the request that starts the load: 10 / 20
StartProgress(k) == IF k = "graph" THEN 10 ELSE 20

\* AsyncData{Status, Data, Error, Progress}
AsyncData(status, data, err, progress) ==
    [Status |-> status, Data |-> data, Error |-> err, Progress |-> progress]

LoadData == {"t1"}           \* what GetUserGraphTriplets / GetUserEpisodes can return
LoadErr == "load failed"      \* err.Error() of a failed load
FetchResults == [ok : {TRUE}, val : LoadData] \cup [ok : {FALSE}, val : {LoadErr}]

AsyncUser == CHOOSE u \in Users : TRUE

\* an HTTP request for /users/{userId}/graph (or episodes) async arrives
AsyncArrive(q) ==
    /\ apc[q] = "idle"
    /\ apc' = [apc EXCEPT ![q] = "check_cache"]
    /\ UNCHANGED <<kind, aresp, loaders>>
    /\ UNCHANGED cacheVars /\ UNCHANGED delVars /\ UNCHANGED callVars /\ UNCHANGED pageVars

\* if cached, found := h.cache.Get(cacheKey); found { Encode(cached); return }
CheckCached(q) ==
    /\ apc[q] = "check_cache"
    /\ LET g == Get(items, CacheKey(kind, AsyncUser)) IN
        IF g.found
        THEN /\ aresp' = [req |-> q, val |-> g.data]
             /\ apc' = [apc EXCEPT ![q] = "idle"]
        ELSE /\ apc' = [apc EXCEPT ![q] = "check_loading"]
             /\ UNCHANGED aresp
    /\ UNCHANGED <<kind, loaders>>
    /\ UNCHANGED cacheVars /\ UNCHANGED delVars /\ UNCHANGED callVars /\ UNCHANGED pageVars

\* the sentinel test left out: the request goes on to start a load whether or
\* not the sentinel is there (a mutant of CheckLoading)
CheckLoadingIgnoreSentinel(q) ==
    /\ apc[q] = "check_loading"
    /\ apc' = [apc EXCEPT ![q] = "start_load"]
    /\ UNCHANGED <<kind, aresp, loaders>>
    /\ UNCHANGED cacheVars /\ UNCHANGED delVars /\ UNCHANGED callVars /\ UNCHANGED pageVars

\* if _, loading := h.cache.Get(loadingKey); loading { Encode(loading); return }
CheckLoading(q) ==
    /\ apc[q] = "check_loading"
    /\ IF Get(items, LoadingKey(kind, AsyncUser)).found
       THEN /\ aresp' = [req |-> q,
                          val |-> AsyncData("loading", Nil, Nil, PollProgress(kind))]
            /\ apc' = [apc EXCEPT ![q] = "idle"]
       ELSE /\ apc' = [apc EXCEPT ![q] = "start_load"]
            /\ UNCHANGED aresp
    /\ UNCHANGED <<kind, loaders>>
    /\ UNCHANGED cacheVars /\ UNCHANGED delVars /\ UNCHANGED callVars /\ UNCHANGED pageVars

\* h.cache.Set(loadingKey, true, ttl); go func() {...}(); Encode(loading)
\* (goroutines are anonymous: the new one takes any free slot of the model)
StartLoad(q) ==
    /\ apc[q] = "start_load"
    /\ \E f \in LoaderIds : loaders[f].pc = "free"
    /\ LET l == CHOOSE f \in LoaderIds : loaders[f].pc = "free" IN
       /\ items' = Set(items, LoadingKey(kind, AsyncUser), TRUE, LoadingTTL(kind))
       /\ loaders' = [loaders EXCEPT ![l] = [pc |-> "fetch", result |-> Nil, stale |-> FALSE]]
    /\ aresp' = [req |-> q, val |-> AsyncData("loading", Nil, Nil, StartProgress(kind))]
    /\ apc' = [apc EXCEPT ![q] = "idle"]
    /\ UNCHANGED <<now, nextSweep, getRes, lastWrite, threads, kind>>
    /\ UNCHANGED delVars /\ UNCHANGED callVars /\ UNCHANGED pageVars

\* the value the goroutine caches for what the API call returned
LoadResult(k, res) ==
    IF res.ok THEN AsyncData("success", res.val, Nil, 0)
    ELSE AsyncData("error", Nil, res.val, 0)

\* an error is cached for as long as a success (a mutant of ResultTTL)
ResultTTLAlwaysSuccess(k, res) == SuccessTTL(k)

\* the TTL of the h.cache.Set in the goroutine: the success TTL, or the error
\* TTL when the API call returned an error
ResultTTL(k, res) == IF res.ok THEN SuccessTTL(k) ELSE ErrorTTL(k)

\* the goroutine returns on an error without caching it (a mutant of LoadFinish)
LoadFinishErrorNotStored(l, res) ==
    /\ loaders[l].pc = "fetch"
    /\ items' = IF res.ok
                THEN Set(items, CacheKey(kind, AsyncUser), LoadResult(kind, res), ResultTTL(kind, res))
                ELSE items
    /\ loaders' = [loaders EXCEPT ![l].pc = "defer", ![l].result = res]
    /\ UNCHANGED <<now, nextSweep, getRes, lastWrite, threads, kind, apc, aresp>>
    /\ UNCHANGED delVars /\ UNCHANGED callVars /\ UNCHANGED pageVars

\* the goroutine: GetUserGraphTriplets / GetUserEpisodes returns, and the
\* result (or the error) is cached under cacheKey
LoadFinish(l, res) ==
    /\ loaders[l].pc = "fetch"
    /\ items' = Set(items, CacheKey(kind, AsyncUser), LoadResult(kind, res), ResultTTL(kind, res))
    /\ loaders' = [loaders EXCEPT ![l].pc = "defer", ![l].result = res]
    /\ UNCHANGED <<now, nextSweep, getRes, lastWrite, threads, kind, apc, aresp>>
    /\ UNCHANGED delVars /\ UNCHANGED callVars /\ UNCHANGED pageVars

\* defer h.cache.Delete(loadingKey)
LoadDefer(l) ==
    /\ loaders[l].pc = "defer"
    /\ items' = Delete(items, LoadingKey(kind, AsyncUser))
    /\ loaders' = [loaders EXCEPT ![l] = [pc |-> "free", result |-> Nil, stale |-> FALSE]]
    /\ UNCHANGED <<now, nextSweep, getRes, lastWrite, threads, kind, apc, aresp>>
    /\ UNCHANGED delVars /\ UNCHANGED callVars /\ UNCHANGED pageVars

NextAsync ==
    \/ \E q \in AsyncReqs : AsyncArrive(q)
    \/ \E q \in AsyncReqs : CheckCached(q)
    \/ \E q \in AsyncReqs : CheckLoading(q)
    \/ \E q \in AsyncReqs : StartLoad(q)
    \/ \E l \in LoaderIds, res \in FetchResults : LoadFinish(l, res)
    \/ \E l \in LoaderIds : LoadDefer(l)
    \/ Tick(AsyncTickStep, MaxTimeAsync)

\* either loader is exercised: the two handlers share no cache key
InitAsync ==
    /\ InitCacheVars /\ InitDelVars /\ InitCallVars
    /\ kind \in Kinds
    /\ apc = [q \in AsyncReqs |-> "idle"]
    /\ aresp = [req |-> Nil, val |-> Nil]
    /\ loaders = [l \in LoaderIds |-> [pc |-> "free", result |-> Nil, stale |-> FALSE]]
    /\ pages = [p \in PageReqs |-> [pc |-> "idle", mismatch |-> FALSE]]
    /\ presp = [req |-> Nil, from |-> "none", mismatch |-> FALSE, val |-> [Triplets |-> Nil]]

\* (the sweep is left to SpecCache: it removes only entries Get already hides)
SpecAsync == InitAsync /\ [][NextAsync]_vars

\* the background loads that have been started and have not returned yet
InFlight == {l \in LoaderIds : loaders[l].pc = "fetch"}

(***************************************************************************)
(* internal/handlers/handlers.go: UserGraph, UserGraphAPI and              *)
(* UserEpisodesAPI, which cache the fetched slice under the same keys       *)
(* graph:<id> / episodes:<id> the async handlers use for their AsyncData    *)
(***************************************************************************)
\* the TTL UserGraph, UserGraphAPI and UserEpisodesAPI cache their data with
HandlerCacheTTL == 5

\* a []zepapi.RawTriplet / []zepapi.Episode value
Triplets(val) == [Triplets |-> val]

\* no type assertion: whatever is cached counts as the slice (a mutant of IsTriplets)
IsAnyShape(v) == TRUE

\* cachedTriplets, ok := cached.([]zepapi.RawTriplet) / cached.([]zepapi.Episode)
IsTriplets(v) == DOMAIN v = {"Triplets"}

NoPage == [pc |-> "idle", mismatch |-> FALSE]

PageUnchanged ==
    /\ UNCHANGED <<kind, apc, aresp, loaders>>
    /\ UNCHANGED delVars /\ UNCHANGED callVars

\* an HTTP request for the graph page, the graph partial or the episodes partial
PageArrive(p) ==
    /\ pages[p].pc = "idle"
    /\ pages' = [pages EXCEPT ![p] = [pc |-> "check", mismatch |-> FALSE]]
    /\ UNCHANGED presp
    /\ UNCHANGED cacheVars /\ PageUnchanged

\* if cached, found := h.cache.Get(cacheKey); found && cached != nil {
\*     if triplets, ok := cached.([]zepapi.RawTriplet); ok { serve them } }
\* and otherwise on to the fetch
PageCheck(p) ==
    /\ pages[p].pc = "check"
    /\ LET g == Get(items, CacheKey(kind, AsyncUser)) IN
        IF g.found /\ IsTriplets(g.data)
        THEN /\ presp' = [req |-> p, from |-> "cache", mismatch |-> FALSE, val |-> g.data]
             /\ pages' = [pages EXCEPT ![p] = NoPage]
        ELSE /\ pages' = [pages EXCEPT ![p] = [pc |-> "fetch", mismatch |-> g.found]]
             /\ UNCHANGED presp
    /\ UNCHANGED cacheVars /\ PageUnchanged

\* triplets, err := h.apiClient.GetUserGraphTriplets(userID): an error serves
\* the empty state and caches nothing; a result is cached for 5 minutes and served
PageFetch(p, res) ==
    /\ pages[p].pc = "fetch"
    /\ IF res.ok
       THEN /\ items' = Set(items, CacheKey(kind, AsyncUser), Triplets(res.val), HandlerCacheTTL)
            /\ presp' = [req |-> p, from |-> "api", mismatch |-> pages[p].mismatch,
                         val |-> Triplets(res.val)]
       ELSE /\ UNCHANGED items
            /\ presp' = [req |-> p, from |-> "empty", mismatch |-> pages[p].mismatch,
                         val |-> Triplets("empty")]
    /\ pages' = [pages EXCEPT ![p] = NoPage]
    /\ UNCHANGED <<now, nextSweep, getRes, lastWrite, threads>>
    /\ PageUnchanged

\* the page handlers next to the async handlers of the same key
NextPage ==
    \/ \E p \in PageReqs : PageArrive(p)
    \/ \E p \in PageReqs : PageCheck(p)
    \/ \E p \in PageReqs, res \in FetchResults : PageFetch(p, res)
    \/ \E q \in AsyncReqs : AsyncArrive(q)
    \/ \E q \in AsyncReqs : CheckCached(q)
    \/ \E q \in AsyncReqs : CheckLoading(q)
    \/ \E q \in AsyncReqs : StartLoad(q)
    \/ \E l \in LoaderIds, res \in FetchResults : LoadFinish(l, res)
    \/ \E l \in LoaderIds : LoadDefer(l)

SpecPage == InitAsync /\ [][NextPage]_vars

(***************************************************************************)
(* internal/handlers/deletion.go: DeletionTracker                          *)
(***************************************************************************)
\* a record that starts at progress 0 (a mutant of NewDeletion)
NewDeletionZero(u) ==
    [UserID |-> u, Status |-> "started", Progress |-> 0,
     Message |-> "Starting user deletion...", StartedAt |-> now, Error |-> ""]

\* the record TrackDeletion stores
NewDeletion(u) ==
    [UserID |-> u, Status |-> "started", Progress |-> 10,
     Message |-> "Starting user deletion...", StartedAt |-> now, Error |-> ""]

\* TrackDeletion that leaves the record of a job that is still active in place
\* (a mutant of TrackDeletion)
TrackDeletionKeepActive(m, u) ==
    IF u \in DOMAIN m /\ m[u].Status \notin {"completed", "failed"} THEN m
    ELSE [k \in (DOMAIN m) \cup {u} |-> IF k = u THEN NewDeletion(u) ELSE m[k]]

\* DeletionTracker.TrackDeletion: dt.statuses[userID] = &DeletionStatus{...}
TrackDeletion(m, u) ==
    [k \in (DOMAIN m) \cup {u} |-> IF k = u THEN NewDeletion(u) ELSE m[k]]

\* DeletionTracker.UpdateStatus: writes the three fields if the record exists
UpdateStatus(m, u, status, message, progress) ==
    IF u \in DOMAIN m
    THEN [m EXCEPT ![u].Status = status, ![u].Message = message, ![u].Progress = progress]
    ELSE m

\* DeletionTracker.MarkCompleted (the record's update)
MarkCompleted(m, u) ==
    IF u \in DOMAIN m
    THEN [m EXCEPT ![u].Status = "completed",
                   ![u].Message = "User deletion completed successfully",
                   ![u].Progress = 100]
    ELSE m

\* MarkFailed without `status.Progress = 0` (a mutant of MarkFailed)
MarkFailedKeepProgress(m, u, error) ==
    IF u \in DOMAIN m
    THEN [m EXCEPT ![u].Status = "failed", ![u].Message = "User deletion failed",
                   ![u].Error = error]
    ELSE m

\* DeletionTracker.MarkFailed (the record's update)
MarkFailed(m, u, error) ==
    IF u \in DOMAIN m
    THEN [m EXCEPT ![u].Status = "failed", ![u].Message = "User deletion failed",
                   ![u].Error = error, ![u].Progress = 0]
    ELSE m

\* the auto-cleanup goroutine's delete(dt.statuses, userID)
RemoveStatus(m, u) == [k \in (DOMAIN m) \ {u} |-> m[k]]

\* GetStatus that hides a job once it is terminal (a mutant of GetStatus)
GetStatusActiveOnly(m, u) ==
    IF u \in DOMAIN m /\ m[u].Status \notin {"completed", "failed"}
    THEN [status |-> m[u], exists |-> TRUE]
    ELSE [status |-> Nil, exists |-> FALSE]

\* DeletionTracker.GetStatus
GetStatus(m, u) ==
    IF u \in DOMAIN m THEN [status |-> m[u], exists |-> TRUE]
    ELSE [status |-> Nil, exists |-> FALSE]

(***************************************************************************)
(* zepapi Client: what the downstream calls of one deletion can return     *)
(***************************************************************************)
\* GetUserSessions: an error, a panic, or a list of 0..MaxSessions sessions
SessionsResults ==
    [kind : {"ok"}, n : 0 .. MaxSessions] \cup [kind : {"err", "panic"}, n : {0}]
\* DeleteSession
DeleteSessionResults == {"ok", "err", "panic"}
\* DELETE {baseURL}/group/{userID} of DeleteUserGraphData: 200, 404, a
\* transport error (timeout, refused), another status, or a panic
GroupDeleteResults == {"200", "404", "transport_error", "500", "panic"}
\* DELETE {baseURL}/database/{userID}
DatabaseDeleteResults == {"200", "transport_error", "500"}
\* the messages DeleteUser's error can carry
PrimaryErrs == {"not found", "API error 500: internal"}
\* DeleteUser
DeleteUserResults == {"ok", "panic"} \cup PrimaryErrs

\* len(graphServiceURLs)
GraphServiceURLCount == 4
\* Client.baseURL, as NewClient got it from the configuration
ClientBaseURL == "http://localhost:8000"

\* fmt.Errorf("failed to delete user from Zep server: %w", err).Error()
WrapPrimaryError(msg) == "failed to delete user from Zep server: " \o msg
\* fmt.Sprintf("Deletion panic: %v", r)
PanicMessage == "Deletion panic: runtime error"

\* fmt.Sprintf("Found %d sessions to delete", len(sessions))
FoundMessage(n) == "Found " \o ToString(n) \o " sessions to delete"

(***************************************************************************)
(* internal/handlers/deletion.go: DeleteUserEnhanced, one action per       *)
(* tracker call, cache call and downstream call of the request r           *)
(***************************************************************************)
NoLocals == [userID |-> Nil, listErr |-> FALSE, sessions |-> 0,
             n |-> 0, i |-> 0, url |-> 0, err |-> Nil, nilSessions |-> FALSE]
NoHistory == [primary |-> Nil, failedSessions |-> {}, listFailed |-> FALSE,
              graphFailed |-> FALSE, panicked |-> FALSE]

UserOf(r) == loc[r].userID

\* deletionTracker.TrackDeletion(userID); go func() {...}(); Encode(started)
DeleteUserEnhanced(r, u) ==
    /\ pc[r] = "idle"
    /\ statuses' = TrackDeletion(statuses, u)
    /\ pc' = [pc EXCEPT ![r] = "fetching_sessions"]
    /\ loc' = [loc EXCEPT ![r] = [NoLocals EXCEPT !.userID = u]]
    /\ hist' = [hist EXCEPT ![r] = NoHistory]
    /\ UNCHANGED timers
    /\ UNCHANGED cacheVars /\ UNCHANGED asyncVars /\ UNCHANGED callVars

\* a tracker update of the goroutine of r that moves it from pc `at' to `to'
TrackerUpdate(r, at, to, status, message, progress) ==
    /\ pc[r] = at
    /\ statuses' = UpdateStatus(statuses, UserOf(r), status, message, progress)
    /\ pc' = [pc EXCEPT ![r] = to]

\* Step 1: UpdateStatus(userID, "fetching_sessions", ..., 20)
UpdateFetching(r) ==
    /\ TrackerUpdate(r, "fetching_sessions", "get_sessions",
                     "fetching_sessions", "Retrieving user sessions...", 20)
    /\ UNCHANGED <<loc, hist, timers>>
    /\ UNCHANGED cacheVars /\ UNCHANGED asyncVars /\ UNCHANGED callVars

\* sessions, err := h.apiClient.GetUserSessions(userID)
HandlerGetSessions(r, res) ==
    /\ pc[r] = "get_sessions"
    /\ IF res.kind = "panic"
       THEN /\ pc' = [pc EXCEPT ![r] = "recover"]
            /\ hist' = [hist EXCEPT ![r].panicked = TRUE]
            /\ UNCHANGED loc
       ELSE /\ pc' = [pc EXCEPT ![r] = "sessions_fetched"]
            /\ loc' = [loc EXCEPT ![r].listErr = (res.kind = "err"), ![r].sessions = res.n]
            /\ hist' = [hist EXCEPT ![r].listFailed = (res.kind = "err")]
    /\ UNCHANGED <<statuses, timers>>
    /\ UNCHANGED cacheVars /\ UNCHANGED asyncVars /\ UNCHANGED callVars

\* if err != nil { UpdateStatus("sessions_partial", 30); sessions = []Session{} }
\* else { UpdateStatus("sessions_found", ..., 40) }
UpdateSessionsFetched(r) ==
    /\ IF loc[r].listErr
       THEN TrackerUpdate(r, "sessions_fetched", "sessions_listed", "sessions_partial",
                          "Could not fetch all sessions, continuing...", 30)
       ELSE TrackerUpdate(r, "sessions_fetched", "sessions_listed", "sessions_found",
                          FoundMessage(loc[r].sessions), 40)
    /\ loc' = [loc EXCEPT ![r].sessions = IF loc[r].listErr THEN 0 ELSE @]
    /\ UNCHANGED <<hist, timers>>
    /\ UNCHANGED cacheVars /\ UNCHANGED asyncVars /\ UNCHANGED callVars

\* Step 2: if len(sessions) > 0 { UpdateStatus("deleting_sessions", 50) }
\* else { UpdateStatus("no_sessions", 60) }
UpdateDeletingSessions(r) ==
    /\ IF loc[r].sessions > 0
       THEN TrackerUpdate(r, "sessions_listed", "graph_cleanup", "deleting_sessions",
                          "Deleting user sessions...", 50)
       ELSE TrackerUpdate(r, "sessions_listed", "graph_cleanup", "no_sessions",
                          "No sessions to delete", 60)
    /\ loc' = [loc EXCEPT ![r].listErr = FALSE, ![r].sessions = 0]   \* not read again
    /\ UNCHANGED <<hist, timers>>
    /\ UNCHANGED cacheVars /\ UNCHANGED asyncVars /\ UNCHANGED callVars

\* Step 3: UpdateStatus(userID, "graph_cleanup", ..., 70)
UpdateGraphCleanup(r) ==
    /\ TrackerUpdate(r, "graph_cleanup", "deleting_user",
                     "graph_cleanup", "Starting graph data cleanup...", 70)
    /\ UNCHANGED <<loc, hist, timers>>
    /\ UNCHANGED cacheVars /\ UNCHANGED asyncVars /\ UNCHANGED callVars

\* Step 4: UpdateStatus(userID, "deleting_user", ..., 80), then the call of
\* h.apiClient.DeleteUserWithCleanup(userID)
UpdateDeletingUser(r) ==
    /\ TrackerUpdate(r, "deleting_user", "dwc_get_sessions",
                     "deleting_user", "Deleting user from server...", 80)
    /\ UNCHANGED <<loc, hist, timers>>
    /\ UNCHANGED cacheVars /\ UNCHANGED asyncVars /\ UNCHANGED callVars

(***************************************************************************)
(* zepapi Client.DeleteUserWithCleanup, run inside the goroutine of r      *)
(***************************************************************************)
\* a panic of a downstream call unwinds to the deferred recover()
Panics(r) ==
    /\ pc' = [pc EXCEPT ![r] = "recover"]
    /\ hist' = [hist EXCEPT ![r].panicked = TRUE]
    /\ UNCHANGED loc

\* where DeleteUserWithCleanup goes after the session loop: Step 3 if
\* c.baseURL != "", else Step 4
AfterSessions == IF ClientBaseURL # "" THEN "dwc_graph_group" ELSE "dwc_delete_user"

\* a listing error makes DeleteUserWithCleanup return it, and the goroutine
\* call MarkFailed (a mutant of DwcGetSessions)
DwcGetSessionsAbort(r, res) ==
    /\ pc[r] = "dwc_get_sessions"
    /\ IF res.kind = "panic" THEN Panics(r)
       ELSE IF res.kind = "err"
       THEN /\ pc' = [pc EXCEPT ![r] = "mark_failed"]
            /\ loc' = [loc EXCEPT ![r].err = "failed to get sessions"]
            /\ hist' = [hist EXCEPT ![r].listFailed = TRUE]
       ELSE /\ pc' = [pc EXCEPT ![r] = IF res.n > 0 THEN "dwc_delete_session"
                                       ELSE AfterSessions]
            /\ loc' = [loc EXCEPT ![r].n = res.n, ![r].i = 1, ![r].url = 1]
            /\ UNCHANGED hist
    /\ UNCHANGED <<statuses, timers>>
    /\ UNCHANGED cacheVars /\ UNCHANGED asyncVars /\ UNCHANGED callVars

\* Step 1: sessions, err := c.GetUserSessions(userID); an error is logged and
\* leaves sessions nil
DwcGetSessions(r, res) ==
    /\ pc[r] = "dwc_get_sessions"
    /\ IF res.kind = "panic" THEN Panics(r)
       ELSE /\ pc' = [pc EXCEPT ![r] = IF res.n > 0 THEN "dwc_delete_session"
                                       ELSE AfterSessions]
            /\ loc' = [loc EXCEPT ![r].n = res.n, ![r].i = 1, ![r].url = 1,
                                  ![r].nilSessions = (res.kind = "err")]
            /\ hist' = [hist EXCEPT ![r].listFailed = @ \/ (res.kind = "err")]
    /\ UNCHANGED <<statuses, timers>>
    /\ UNCHANGED cacheVars /\ UNCHANGED asyncVars /\ UNCHANGED callVars

\* Step 2: for _, session := range sessions { err := c.DeleteSession(...) }
\* an error is logged and the loop continues
DwcDeleteSession(r, res) ==
    /\ pc[r] = "dwc_delete_session"
    /\ IF res = "panic" THEN Panics(r)
       ELSE /\ pc' = [pc EXCEPT ![r] = IF loc[r].i < loc[r].n THEN "dwc_delete_session"
                                       ELSE AfterSessions]
            /\ loc' = [loc EXCEPT ![r].i = @ + 1]
            /\ hist' = [hist EXCEPT ![r].failedSessions =
                            IF res = "err" THEN @ \cup {loc[r].i} ELSE @]
    /\ UNCHANGED <<statuses, timers>>
    /\ UNCHANGED cacheVars /\ UNCHANGED asyncVars /\ UNCHANGED callVars

\* the group deletion counts 404 as a failure (a mutant of ProbeAnswered)
ProbeAnsweredOnly200(res) == res = "200"

\* if resp.StatusCode == 200 || resp.StatusCode == 404
ProbeAnswered(res) == res \in {"200", "404"}

\* Step 3, DeleteUserGraphData run inline: the group deletion on the url-th
\* candidate.  200 or 404 goes on to the database deletion on that candidate;
\* anything else tries the next candidate, and after the last one the error
\* "no graph service responded successfully" is logged by the caller
DwcGraphGroupDelete(r, res) ==
    /\ pc[r] = "dwc_graph_group"
    /\ IF res = "panic" THEN Panics(r)
       ELSE IF ProbeAnswered(res)
       THEN /\ pc' = [pc EXCEPT ![r] = "dwc_graph_database"]
            /\ UNCHANGED <<loc, hist>>
       ELSE IF loc[r].url < GraphServiceURLCount
       THEN /\ loc' = [loc EXCEPT ![r].url = @ + 1]
            /\ UNCHANGED <<pc, hist>>
       ELSE /\ pc' = [pc EXCEPT ![r] = "dwc_delete_user"]
            /\ hist' = [hist EXCEPT ![r].graphFailed = TRUE]
            /\ UNCHANGED loc
    /\ UNCHANGED <<statuses, timers>>
    /\ UNCHANGED cacheVars /\ UNCHANGED asyncVars /\ UNCHANGED callVars

\* the database deletion on the candidate that answered: whatever it returns,
\* DeleteUserGraphData returns nil
DwcGraphDatabaseDelete(r, res) ==
    /\ pc[r] = "dwc_graph_database"
    /\ pc' = [pc EXCEPT ![r] = "dwc_delete_user"]
    /\ UNCHANGED <<loc, hist, statuses, timers>>
    /\ UNCHANGED cacheVars /\ UNCHANGED asyncVars /\ UNCHANGED callVars

\* the value DeleteUserWithCleanup returns for DeleteUser's error (a mutant:
\* a failed session deletion is returned as well)
DwcErrorStrict(r, res) ==
    IF res # "ok" THEN WrapPrimaryError(res)
    ELSE IF hist[r].failedSessions # {} THEN "failed to delete session"
    ELSE Nil

\* the value DeleteUserWithCleanup returns: nil, or DeleteUser's error wrapped
DwcError(r, res) == IF res = "ok" THEN Nil ELSE WrapPrimaryError(res)

\* Step 4: err = c.DeleteUser(userID), and back in the goroutine
\* if err != nil { MarkFailed(userID, err.Error()); return }
DwcDeleteUser(r, res) ==
    /\ pc[r] = "dwc_delete_user"
    /\ IF res = "panic" THEN Panics(r)
       ELSE /\ pc' = [pc EXCEPT ![r] = IF DwcError(r, res) = Nil THEN "clearing_cache"
                                       ELSE "mark_failed"]
            /\ loc' = [loc EXCEPT ![r].n = 0, ![r].i = 0, ![r].url = 0,
                                  ![r].nilSessions = FALSE,
                                  ![r].err = DwcError(r, res)]
            /\ hist' = [hist EXCEPT ![r].primary = res]
    /\ UNCHANGED <<statuses, timers>>
    /\ UNCHANGED cacheVars /\ UNCHANGED asyncVars /\ UNCHANGED callVars

\* whether a Mark call starts an auto-cleanup goroutine: only inside "if exists"
Scheduled(r) == IF UserOf(r) \in DOMAIN statuses THEN "sleeping" ELSE "none"

\* deletionTracker.MarkFailed(userID, err.Error()); return
FailJob(r) ==
    /\ pc[r] = "mark_failed"
    /\ statuses' = MarkFailed(statuses, UserOf(r), loc[r].err)
    /\ timers' = [timers EXCEPT ![r] = Scheduled(r)]
    /\ pc' = [pc EXCEPT ![r] = "done"]
    /\ UNCHANGED <<loc, hist>>
    /\ UNCHANGED cacheVars /\ UNCHANGED asyncVars /\ UNCHANGED callVars

\* defer func() { if r := recover(); r != nil { MarkFailed(userID, "Deletion panic: ...") } }()
Recover(r) ==
    /\ pc[r] = "recover"
    /\ statuses' = MarkFailed(statuses, UserOf(r), PanicMessage)
    /\ timers' = [timers EXCEPT ![r] = Scheduled(r)]
    /\ pc' = [pc EXCEPT ![r] = "done"]
    /\ loc' = [loc EXCEPT ![r] = [NoLocals EXCEPT !.userID = UserOf(r), !.err = PanicMessage]]
    /\ UNCHANGED hist
    /\ UNCHANGED cacheVars /\ UNCHANGED asyncVars /\ UNCHANGED callVars

\* Step 5: UpdateStatus(userID, "clearing_cache", ..., 90)
UpdateClearingCache(r) ==
    /\ TrackerUpdate(r, "clearing_cache", "delete_user_key",
                     "clearing_cache", "Clearing cached data...", 90)
    /\ UNCHANGED <<loc, hist, timers>>
    /\ UNCHANGED cacheVars /\ UNCHANGED asyncVars /\ UNCHANGED callVars

\* history: the load goroutines that are in their API call while `key', the
\* key they will store their result under, is deleted
OvertakenBy(key) ==
    [l \in LoaderIds |->
        IF loaders[l].pc = "fetch" /\ key = CacheKey(kind, AsyncUser)
        THEN [loaders[l] EXCEPT !.stale = TRUE]
        ELSE loaders[l]]

\* one h.cache.Delete of Step 5
ClearKey(r, at, to, key) ==
    /\ pc[r] = at
    /\ items' = Delete(items, key)
    /\ pc' = [pc EXCEPT ![r] = to]
    /\ loaders' = OvertakenBy(key)
    /\ UNCHANGED <<now, nextSweep, getRes, lastWrite, threads, statuses, loc, hist, timers>>
    /\ UNCHANGED <<kind, apc, aresp>> /\ UNCHANGED pageVars /\ UNCHANGED callVars

\* h.cache.Delete(fmt.Sprintf("user:%s", userID))
ClearUserKey(r) == ClearKey(r, "delete_user_key", "delete_episodes_key", CacheKey("user", UserOf(r)))
\* h.cache.Delete(fmt.Sprintf("episodes:%s", userID))
ClearEpisodesKey(r) == ClearKey(r, "delete_episodes_key", "delete_graph_key", CacheKey("episodes", UserOf(r)))
\* h.cache.Delete(fmt.Sprintf("graph:%s", userID))
ClearGraphKey(r) == ClearKey(r, "delete_graph_key", "mark_completed", CacheKey("graph", UserOf(r)))

\* deletionTracker.MarkCompleted(userID)
CompleteJob(r) ==
    /\ pc[r] = "mark_completed"
    /\ statuses' = MarkCompleted(statuses, UserOf(r))
    /\ timers' = [timers EXCEPT ![r] = Scheduled(r)]
    /\ pc' = [pc EXCEPT ![r] = "done"]
    /\ UNCHANGED <<loc, hist>>
    /\ UNCHANGED cacheVars /\ UNCHANGED asyncVars /\ UNCHANGED callVars

\* the goroutine MarkCompleted / MarkFailed started wakes up after its
\* time.Sleep (30 s / 60 s) and deletes the record of its userID
AutoCleanup(r) ==
    /\ timers[r] = "sleeping"
    /\ statuses' = RemoveStatus(statuses, UserOf(r))
    /\ timers' = [timers EXCEPT ![r] = "fired"]
    /\ UNCHANGED <<pc, loc, hist>>
    /\ UNCHANGED cacheVars /\ UNCHANGED asyncVars /\ UNCHANGED callVars

\* another handler caches data it fetched for the user:
\* h.cache.Set(cacheKey, triplets / episodes, 5*time.Minute)
CacheUserData(k, u) ==
    /\ items' = Set(items, CacheKey(k, u), Triplets("t1"), HandlerCacheTTL)
    /\ UNCHANGED <<now, nextSweep, getRes, lastWrite, threads>>
    /\ UNCHANGED asyncVars /\ UNCHANGED delVars /\ UNCHANGED callVars

\* the goroutine of request r takes its next step
RunStep(r) ==
    \/ UpdateFetching(r)
    \/ \E res \in SessionsResults : HandlerGetSessions(r, res)
    \/ UpdateSessionsFetched(r)
    \/ UpdateDeletingSessions(r)
    \/ UpdateGraphCleanup(r)
    \/ UpdateDeletingUser(r)
    \/ \E res \in SessionsResults : DwcGetSessions(r, res)
    \/ \E res \in DeleteSessionResults : DwcDeleteSession(r, res)
    \/ \E res \in GroupDeleteResults : DwcGraphGroupDelete(r, res)
    \/ \E res \in DatabaseDeleteResults : DwcGraphDatabaseDelete(r, res)
    \/ \E res \in DeleteUserResults : DwcDeleteUser(r, res)
    \/ FailJob(r)
    \/ Recover(r)
    \/ UpdateClearingCache(r)
    \/ ClearUserKey(r)
    \/ ClearEpisodesKey(r)
    \/ ClearGraphKey(r)
    \/ CompleteJob(r)

NextDel ==
    \/ \E r \in Runs, u \in Users : DeleteUserEnhanced(r, u)
    \/ \E r \in Runs : RunStep(r)
    \/ \E r \in Runs : AutoCleanup(r)
    \/ \E k \in {"graph", "episodes"}, u \in Users : CacheUserData(k, u)

SpecDel == Init /\ [][NextDel]_vars

\* every downstream call returns, every goroutine is scheduled, every sleep ends
SpecDelFair ==
    /\ Init /\ [][NextDel]_vars
    /\ \A r \in Runs : WF_vars(RunStep(r)) /\ WF_vars(AutoCleanup(r))

Terminal == {"completed", "failed"}

\* the job of user u is in the tracker, in a terminal state
JobTerminal(u) == u \in DOMAIN statuses /\ statuses[u].Status \in Terminal

\* the phase of the spec's state machine a tracked status belongs to:
\* Started, FetchingDependents, DeletingDependents, CleaningSecondary,
\* DeletingPrimary, then the terminal states
PhaseOf(status) ==
    CASE status = "started" -> 0
      [] status \in {"fetching_sessions", "sessions_partial", "sessions_found"} -> 1
      [] status \in {"deleting_sessions", "no_sessions"} -> 2
      [] status = "graph_cleanup" -> 3
      [] status \in {"deleting_user", "clearing_cache"} -> 4
      [] status \in Terminal -> 5

\* the step is a TrackDeletion for u (it replaces the record by a fresh one)
Tracks(u) == \E r \in Runs : DeleteUserEnhanced(r, u)

(***************************************************************************)
(* zepapi Client.DeleteUserGraphData as a call of its own: every request   *)
(* it makes and the value it returns                                       *)
(***************************************************************************)
\* graphServiceURLs
GraphServiceURLs ==
    << "http://zep-falkordb-service.railway.internal:8003",
       "http://zep-falkordb-service:8003",
       "http://localhost:8003",
       "http://127.0.0.1:8003" >>

\* what the group deletion on one candidate can come to: http.NewRequest
\* fails, client.Do fails (refused, 15 s timeout), or a status code
ProbeGroupResults == {"request_error", "transport_error", "200", "404", "500"}
\* what the database deletion on the candidate that answered can come to
ProbeDatabaseResults == {"request_error", "transport_error", "200", "404", "500"}

\* an error that does not say how many URLs were tried (a mutant of ProbeErrorf)
ProbeErrorfNoCount(n) == << "no graph service responded successfully" >>

\* fmt.Errorf("no graph service responded successfully (tried %d URLs)", n):
\* the message, as the text of the format and the formatted argument
ProbeErrorf(n) ==
    << "no graph service responded successfully (tried ", ToString(n), " URLs)" >>

\* a nil error
ProbeNil == << >>

\* c.DeleteUserGraphData(userID) is called
ProbeCall ==
    /\ probe.pc = "idle"
    /\ probe' = [probe EXCEPT !.pc = "group", !.url = 1]
    /\ UNCHANGED <<fan, poll, dsess>>
    /\ UNCHANGED cacheVars /\ UNCHANGED asyncVars /\ UNCHANGED delVars

\* one pass of the loop over graphServiceURLs: the group deletion on candidate
\* probe.url.  200 or 404 leaves the loop for the database deletion on the same
\* candidate; anything else continues with the next candidate, and after the
\* last candidate the function returns the aggregate error
ProbeGroupDelete(res) ==
    /\ probe.pc = "group"
    /\ LET made == Append(probe.requests,
                          [url |-> GraphServiceURLs[probe.url], res |-> res])
       IN  IF ProbeAnswered(res)
           THEN probe' = [probe EXCEPT !.pc = "database", !.requests = made]
           ELSE IF probe.url < Len(GraphServiceURLs)
           THEN probe' = [probe EXCEPT !.url = @ + 1, !.requests = made]
           ELSE probe' = [probe EXCEPT !.pc = "returned", !.requests = made,
                                       !.ret = ProbeErrorf(Len(GraphServiceURLs))]
    /\ UNCHANGED <<fan, poll, dsess>>
    /\ UNCHANGED cacheVars /\ UNCHANGED asyncVars /\ UNCHANGED delVars

\* a failed database deletion is returned as the probe's error (a mutant of
\* ProbeDatabaseDelete)
ProbeDatabaseDeleteStrict(res) ==
    /\ probe.pc = "database"
    /\ probe' = [probe EXCEPT !.pc = "returned",
                              !.db = << [url |-> GraphServiceURLs[probe.url], res |-> res] >>,
                              !.ret = IF ProbeAnswered(res) THEN ProbeNil
                                      ELSE ProbeErrorf(probe.url)]
    /\ UNCHANGED <<fan, poll, dsess>>
    /\ UNCHANGED cacheVars /\ UNCHANGED asyncVars /\ UNCHANGED delVars

\* the database deletion on the candidate that answered; every outcome of it
\* ends in "return nil"
ProbeDatabaseDelete(res) ==
    /\ probe.pc = "database"
    /\ probe' = [probe EXCEPT !.pc = "returned",
                              !.db = << [url |-> GraphServiceURLs[probe.url], res |-> res] >>,
                              !.ret = ProbeNil]
    /\ UNCHANGED <<fan, poll, dsess>>
    /\ UNCHANGED cacheVars /\ UNCHANGED asyncVars /\ UNCHANGED delVars

NextProbe ==
    \/ ProbeCall
    \/ \E res \in ProbeGroupResults : ProbeGroupDelete(res)
    \/ \E res \in ProbeDatabaseResults : ProbeDatabaseDelete(res)

SpecProbe == Init /\ [][NextProbe]_vars

(***************************************************************************)
(* zepapi Client.DeleteSession: the loop over the two deletion endpoints   *)
(***************************************************************************)
SessionIDs == {"s1", "s2", "s3"}

\* endpoints := []string{"/api/v2/sessions/<id>/memory", "/api/v2/sessions/<id>"}
Endpoints(sessionID) ==
    << "/api/v2/sessions/" \o sessionID \o "/memory",
       "/api/v2/sessions/" \o sessionID >>

\* what c.delete(endpoint) can come back with: an error of the transport, or
\* a response with a status code
TransportErrors == {"timeout", "connection refused"}
StatusCodes == {"200", "204", "400", "401", "404", "405", "500"}
DeleteResults == [err : TransportErrors, code : {Nil}] \cup [err : {Nil}, code : StatusCodes]

\* the values DeleteSession returns
DsNil == << >>
DsApiError(code) == <<"API error ", code>>
DsLastError(err) == <<"failed to delete session, last error: ", err>>
DsNoEndpoint == <<"no working endpoint found for session deletion">>

\* a 404 is skipped like a 405 (a mutant of MovesOn)
MovesOnAlso404(res) == res.err # Nil \/ res.code \in {"405", "404"}

\* err != nil { lastErr = err; continue } and StatusMethodNotAllowed { continue }
MovesOn(res) == res.err # Nil \/ res.code = "405"

\* resp.StatusCode == http.StatusOK || resp.StatusCode == http.StatusNoContent
Deleted(res) == res.err = Nil /\ res.code \in {"200", "204"}

DeleteSessionCall(sessionID) ==
    /\ dsess.pc = "idle"
    /\ dsess' = [dsess EXCEPT !.pc = "loop", !.sessionID = sessionID, !.endpoint = 1]
    /\ UNCHANGED <<probe, fan, poll>>
    /\ UNCHANGED cacheVars /\ UNCHANGED asyncVars /\ UNCHANGED delVars

\* one pass of the loop: c.delete on endpoint dsess.endpoint and what follows
\* from its answer; after the last endpoint the code below the loop runs
DeleteSessionTry(res) ==
    /\ dsess.pc = "loop"
    /\ LET made == Append(dsess.requests,
                          [endpoint |-> Endpoints(dsess.sessionID)[dsess.endpoint],
                           res |-> res])
           lastErr == IF res.err # Nil THEN res.err ELSE dsess.lastErr
           last == dsess.endpoint = Len(Endpoints(dsess.sessionID))
       IN  dsess' =
             IF Deleted(res)
             THEN [dsess EXCEPT !.pc = "returned", !.requests = made, !.ret = DsNil]
             ELSE IF ~ MovesOn(res)
             THEN [dsess EXCEPT !.pc = "returned", !.requests = made,
                                !.ret = DsApiError(res.code)]
             ELSE IF ~ last
             THEN [dsess EXCEPT !.endpoint = @ + 1, !.requests = made,
                                !.lastErr = lastErr]
             ELSE [dsess EXCEPT !.pc = "returned", !.requests = made,
                                !.lastErr = lastErr,
                                !.ret = IF lastErr # Nil THEN DsLastError(lastErr)
                                        ELSE DsNoEndpoint]
    /\ UNCHANGED <<probe, fan, poll>>
    /\ UNCHANGED cacheVars /\ UNCHANGED asyncVars /\ UNCHANGED delVars

NextDeleteSession ==
    \/ \E sessionID \in SessionIDs : DeleteSessionCall(sessionID)
    \/ \E res \in DeleteResults : DeleteSessionTry(res)

SpecDeleteSession == Init /\ [][NextDeleteSession]_vars

(***************************************************************************)
(* zepapi Client.DeleteUserWithCleanup, Step 2 as a run of its own: the    *)
(* loop over the listed sessions, with the start and the return of every   *)
(* DeleteSession call                                                      *)
(***************************************************************************)
\* maxWorkers of the optimization notes
MaxWorkers == 3

\* what GetUserSessions handed to the loop: an error (sessions stays nil) or a
\* list of 0..MaxListed sessions
ListResults == [kind : {"ok"}, n : 0 .. MaxListed] \cup [kind : {"err"}, n : {0}]

\* the next call starts without waiting for the calls that are running
\* (a mutant of CanStart)
CanStartAlways(f) == TRUE

\* `err := c.DeleteSession(session.SessionID)' is a synchronous call in the
\* body of the range loop: the next pass starts when the call has returned
CanStart(f) == f.running = {}

\* an error return ends the loop (a mutant of FanAfter)
FanAfterAbortOnError(res) ==
    IF res = "panic" THEN "panicked" ELSE IF res = "err" THEN "returned" ELSE "loop"

\* after a DeleteSession call: an error is logged and the loop goes on
\* ("Continue with other sessions even if one fails"); a panic unwinds
FanAfter(res) == IF res = "panic" THEN "panicked" ELSE "loop"

\* sessions, err := c.GetUserSessions(userID): the loop gets the list, or nil
FanCall(res) ==
    /\ fan.pc = "idle"
    /\ fan' = [fan EXCEPT !.pc = "loop", !.n = res.n, !.i = 1]
    /\ UNCHANGED <<probe, poll, dsess>>
    /\ UNCHANGED cacheVars /\ UNCHANGED asyncVars /\ UNCHANGED delVars

\* the loop reaches session fan.i and calls c.DeleteSession for it
FanStart ==
    /\ fan.pc = "loop"
    /\ fan.i <= fan.n
    /\ CanStart(fan)
    /\ fan' = [fan EXCEPT !.running = @ \cup {fan.i}, !.i = @ + 1]
    /\ UNCHANGED <<probe, poll, dsess>>
    /\ UNCHANGED cacheVars /\ UNCHANGED asyncVars /\ UNCHANGED delVars

\* the DeleteSession call for session s returns
FanReturn(s, res) ==
    /\ fan.pc = "loop"
    /\ s \in fan.running
    /\ fan' = [fan EXCEPT !.pc = FanAfter(res), !.running = @ \ {s},
                          !.outcomes = Append(@, [session |-> s, res |-> res])]
    /\ UNCHANGED <<probe, poll, dsess>>
    /\ UNCHANGED cacheVars /\ UNCHANGED asyncVars /\ UNCHANGED delVars

\* the range is exhausted: Step 2 is over
FanEnd ==
    /\ fan.pc = "loop"
    /\ fan.i > fan.n
    /\ fan.running = {}
    /\ fan' = [fan EXCEPT !.pc = "returned"]
    /\ UNCHANGED <<probe, poll, dsess>>
    /\ UNCHANGED cacheVars /\ UNCHANGED asyncVars /\ UNCHANGED delVars

NextFanOut ==
    \/ \E res \in ListResults : FanCall(res)
    \/ FanStart
    \/ \E s \in 1 .. MaxListed, res \in DeleteSessionResults : FanReturn(s, res)
    \/ FanEnd

SpecFanOut == Init /\ [][NextFanOut]_vars

(***************************************************************************)
(* DeleteUserEnhanced for a user next to the async loaders of that user    *)
(***************************************************************************)
\* the one deletion request and the one async request that run side by side
SoloRuns == {"r1"}
SoloReqs == {"q1"}

NextAsyncDel ==
    \/ \E q \in SoloReqs : AsyncArrive(q)
    \/ \E q \in SoloReqs : CheckCached(q)
    \/ \E q \in SoloReqs : CheckLoading(q)
    \/ \E q \in SoloReqs : StartLoad(q)
    \/ \E l \in LoaderIds, res \in FetchResults : LoadFinish(l, res)
    \/ \E l \in LoaderIds : LoadDefer(l)
    \/ \E r \in SoloRuns, u \in Users : DeleteUserEnhanced(r, u)
    \/ \E r \in SoloRuns : RunStep(r)
    \/ \E r \in SoloRuns : AutoCleanup(r)

SpecAsyncDel == InitAsync /\ [][NextAsyncDel]_vars

(***************************************************************************)
(* internal/handlers/deletion.go: the DeletionStatus handler next to one   *)
(* DeleteUserEnhanced request.  GetStatus returns the *DeletionStatus of   *)
(* the map under RLock; json.Encode reads the struct's fields through that *)
(* pointer after the lock is released, one field at a time                 *)
(***************************************************************************)
\* the fields of a tracker record that the updates write
Fields(rec) == [Status |-> rec.Status, Progress |-> rec.Progress,
                Message |-> rec.Message, Error |-> rec.Error]

\* the encoder reads field f of the struct the pointer refers to, as it is now
ReadField(snap, f) == [snap EXCEPT ![f] = statuses[poll.user][f]]

\* status, exists := deletionTracker.GetStatus(userID): not found is answered
\* at once, otherwise the handler holds the pointer (history: seen collects
\* the record as it is at each instant the handler looks at it)
PollGetStatus(u) ==
    /\ poll.pc = "idle"
    /\ IF GetStatus(statuses, u).exists
       THEN poll' = [pc |-> "read_status", user |-> u, snap |-> NoSnap,
                     seen |-> {Fields(GetStatus(statuses, u).status)}, resp |-> Nil]
       ELSE poll' = [NoPoll EXCEPT !.user = u, !.resp = "not_found"]
    /\ UNCHANGED <<probe, fan, dsess>>
    /\ UNCHANGED cacheVars /\ UNCHANGED asyncVars /\ UNCHANGED delVars

\* json.NewEncoder(w).Encode(status) reads one field of the struct
PollRead(at, f, to) ==
    /\ poll.pc = at
    /\ poll.user \in DOMAIN statuses
    /\ LET seen == IF at = "read_status" THEN poll.seen
                   ELSE poll.seen \cup {Fields(statuses[poll.user])}
       IN  poll' = [poll EXCEPT !.pc = to, !.seen = seen,
                                !.snap = ReadField(poll.snap, f)]
    /\ UNCHANGED <<probe, fan, dsess>>
    /\ UNCHANGED cacheVars /\ UNCHANGED asyncVars /\ UNCHANGED delVars

PollReadStatus == PollRead("read_status", "Status", "read_progress")
PollReadProgress == PollRead("read_progress", "Progress", "read_message")
PollReadMessage == PollRead("read_message", "Message", "read_error")
PollReadError == PollRead("read_error", "Error", "respond")

\* the encoded record is written to the response
PollRespond ==
    /\ poll.pc = "respond"
    /\ poll' = [poll EXCEPT !.pc = "idle", !.resp = "status"]
    /\ UNCHANGED <<probe, fan, dsess>>
    /\ UNCHANGED cacheVars /\ UNCHANGED asyncVars /\ UNCHANGED delVars

\* one deletion request (its expiry detaches the struct from the map, after
\* which the struct does not change any more) and the poller
NextPoll ==
    \/ \E r \in SoloRuns, u \in Users : DeleteUserEnhanced(r, u)
    \/ \E r \in SoloRuns : RunStep(r)
    \/ \E u \in Users : PollGetStatus(u)
    \/ PollReadStatus
    \/ PollReadProgress
    \/ PollReadMessage
    \/ PollReadError
    \/ PollRespond

SpecPoll == Init /\ [][NextPoll]_vars


(***************************************************************************)
(* C1: single-flight.  For callers of one async loader that arrive for the *)
(* same user before the background load has finished, the load is started  *)
(* exactly once: at no time are two loads of the same key in flight.       *)
(***************************************************************************)
C1_SingleFlight == Cardinality(InFlight) <= 1

(***************************************************************************)
(* C2: Cache.Get never returns an entry whose expiry time has passed: a    *)
(* Get of a key whose ExpiresAt lies before the current time reports       *)
(* found = FALSE, whether or not the sweep has removed the entry.          *)
(***************************************************************************)
C2_GetNeverReturnsExpired ==
    [][\A k \in DirectKeys :
          (CallGet(k) /\ k \in DOMAIN items /\ now > items[k].ExpiresAt)
              => (getRes'.found = FALSE /\ getRes'.data = Nil)]_vars

\* a Get has just answered "not found" for an entry that is expired and that
\* no sweep has removed yet
C2_Witness ==
    /\ getRes.key \in DOMAIN items
    /\ getRes.at = now
    /\ now > items[getRes.key].ExpiresAt
    /\ getRes.found = FALSE

(***************************************************************************)
(* C3: the tracked status of a job moves through the phases only in the    *)
(* order Started, FetchingDependents, DeletingDependents,                  *)
(* CleaningSecondary, DeletingPrimary, Completed: apart from a             *)
(* TrackDeletion that registers a new job, no step takes the tracked       *)
(* status back to an earlier phase, and it becomes completed only from the *)
(* primary-deletion phase.                                                 *)
(***************************************************************************)
C3_PhaseOrder ==
    [][\A u \in Users :
          (u \in DOMAIN statuses /\ u \in DOMAIN statuses' /\ ~Tracks(u))
              => /\ PhaseOf(statuses'[u].Status) >= PhaseOf(statuses[u].Status)
                 /\ (statuses'[u].Status = "completed" /\ statuses[u].Status # "completed")
                        => PhaseOf(statuses[u].Status) = 4]_vars

(***************************************************************************)
(* C4: a job is Failed only because primary deletion (DeleteUser) failed   *)
(* or the pipeline panicked: the error of a failed job is the error of a   *)
(* failed DeleteUser of a run for that user, or the panic message; a run   *)
(* calls MarkFailed only after its DeleteUser failed; and a run whose      *)
(* DeleteUser succeeded goes on to MarkCompleted whatever failed in        *)
(* listing sessions, deleting sessions or cleaning up graph data.          *)
(***************************************************************************)
C4_FailedOnlyByPrimaryOrPanic ==
    /\ \A u \in DOMAIN statuses :
          statuses[u].Status = "failed" =>
              \E r \in Runs :
                  /\ UserOf(r) = u
                  /\ \/ /\ hist[r].primary \in PrimaryErrs
                        /\ statuses[u].Error = WrapPrimaryError(hist[r].primary)
                     \/ /\ hist[r].panicked
                        /\ statuses[u].Error = PanicMessage
    /\ \A r \in Runs :
          /\ pc[r] = "mark_failed" => hist[r].primary \in PrimaryErrs
          /\ pc[r] = "recover" => hist[r].panicked
          /\ (hist[r].primary = "ok" /\ ~hist[r].panicked)
                => pc[r] \in {"clearing_cache", "delete_user_key", "delete_episodes_key",
                              "delete_graph_key", "mark_completed", "done"}
                   /\ loc[r].err = Nil

\* a run has ended with its job completed although listing sessions, a
\* session deletion and the graph cleanup all failed in it
C4_Witness ==
    \E r \in Runs :
        /\ pc[r] = "done"
        /\ hist[r].listFailed /\ hist[r].failedSessions # {} /\ hist[r].graphFailed
        /\ UserOf(r) \in DOMAIN statuses
        /\ statuses[UserOf(r)].Status = "completed"

(***************************************************************************)
(* C5: whenever primary deletion succeeded, the job reaches Completed with *)
(* progress 100: the step in which a run whose DeleteUser succeeded ends   *)
(* leaves the job of its user completed, with progress 100.                *)
(***************************************************************************)
C5_PrimarySuccessCompletes ==
    [][\A r \in Runs :
          (pc[r] = "mark_completed" /\ pc'[r] = "done")
              => /\ UserOf(r) \in DOMAIN statuses'
                 /\ statuses'[UserOf(r)].Status = "completed"
                 /\ statuses'[UserOf(r)].Progress = 100]_vars

(***************************************************************************)
(* C6: when primary deletion returns an error, the error field of the      *)
(* failed job equals the primary-deletion error message verbatim.          *)
(***************************************************************************)
C6_ErrorVerbatim ==
    \A u \in DOMAIN statuses :
        (statuses[u].Status = "failed" /\ statuses[u].Error # PanicMessage)
            => statuses[u].Error \in {hist[r].primary : r \in Runs}

(***************************************************************************)
(* C7: graph cleanup is started but not awaited: while the cleanup probe   *)
(* of a run is still running, the run can begin primary deletion.          *)
(***************************************************************************)
C7_CleanupNotAwaited ==
    \A r \in Runs :
        pc[r] \in {"dwc_graph_group", "dwc_graph_database"}
            => ENABLED (\E res \in DeleteUserResults : DwcDeleteUser(r, res))

(***************************************************************************)
(* C8: when a deletion job reaches Completed or Failed, the cache keys     *)
(* user:<id>, episodes:<id> and graph:<id> of its user are invalidated:    *)
(* after the step that makes the job terminal, Get reports not found for   *)
(* each of them.                                                           *)
(***************************************************************************)
C8_TerminalCacheInvalidated ==
    [][\A u \in Users :
          (~JobTerminal(u) /\ JobTerminal(u)')
              => \A k \in {"user", "episodes", "graph"} :
                    ~Get(items', CacheKey(k, u)).found]_vars

(***************************************************************************)
(* C9: the progress read for a job id never decreases until a terminal     *)
(* state is observed: no step other than the registration of a new job     *)
(* takes the progress of a tracked, non-terminal job to a smaller value of *)
(* a non-terminal job.                                                     *)
(***************************************************************************)
C9_ProgressMonotone ==
    [][\A u \in Users :
          (/\ u \in DOMAIN statuses /\ u \in DOMAIN statuses'
           /\ statuses[u].Status \notin Terminal
           /\ statuses'[u].Status \notin Terminal
           /\ ~Tracks(u))
              => statuses'[u].Progress >= statuses[u].Progress]_vars

(***************************************************************************)
(* C10: once TrackDeletion has registered the job of a run and its         *)
(* pipeline has started, the tracked job eventually is Completed or        *)
(* Failed, when every downstream call returns.                             *)
(***************************************************************************)
C10_JobTerminates ==
    \A r \in Runs : (pc[r] = "fetching_sessions") ~> JobTerminal(UserOf(r))

(***************************************************************************)
(* C11: a call of the async loader that finds the loading sentinel of its  *)
(* key present answers Loading and does not start the underlying load      *)
(* again: the sentinel test of a request that finds the sentinel ends the  *)
(* request with a loading response, starts no goroutine and writes nothing *)
(* to the cache.                                                           *)
(***************************************************************************)
C11_SentinelAnswersLoading ==
    [][\A q \in AsyncReqs :
          (CheckLoading(q) /\ Get(items, LoadingKey(kind, AsyncUser)).found)
              => /\ aresp'.req = q
                 /\ aresp'.val = AsyncData("loading", Nil, Nil, PollProgress(kind))
                 /\ apc'[q] = "idle"
                 /\ loaders' = loaders
                 /\ items' = items]_vars

\* a request has been answered Loading from the sentinel while the one load
\* that was started is still in flight
C11_Witness ==
    /\ aresp.req # Nil
    /\ aresp.val = AsyncData("loading", Nil, Nil, PollProgress(kind))
    /\ Cardinality(InFlight) = 1
    /\ Get(items, LoadingKey(kind, AsyncUser)).found

(***************************************************************************)
(* C12: once the background load has stored its result (or error) for the  *)
(* key, every call for that key observes that same result until the        *)
(* result's TTL expires: while the stored entry has not expired, no step    *)
(* removes it or replaces its data.                                        *)
(***************************************************************************)
C12_ResultStableUntilExpiry ==
    [][LET k == CacheKey(kind, AsyncUser) IN
          (k \in DOMAIN items /\ now' <= items[k].ExpiresAt)
              => (k \in DOMAIN items' /\ items'[k].Data = items[k].Data)]_vars

(***************************************************************************)
(* C13: Set overwrites.  A Set of a key that already has an entry replaces *)
(* the entry's data and gives it the expiry computed by this Set, and a    *)
(* Get of the key made before that expiry returns the data of the second   *)
(* Set, found.                                                             *)
(***************************************************************************)
C13_SetOverwrites ==
    [][/\ \A k \in DirectKeys, d \in DirectData, ttl \in DirectDurations :
            (CallSet(k, d, ttl) /\ k \in DOMAIN items)
                => items'[k] = [Data |-> d, ExpiresAt |-> now + ttl]
       /\ \A k \in DirectKeys :
            (/\ CallGet(k)
             /\ lastWrite.op = "Set" /\ lastWrite.had /\ lastWrite.key = k
             /\ now <= lastWrite.expires)
                => (getRes'.found /\ getRes'.data = lastWrite.data)]_vars

\* a Get made after a Set that replaced an entry has returned that Set's data
C13_Witness ==
    /\ lastWrite.op = "Set" /\ lastWrite.had
    /\ getRes.key = lastWrite.key
    /\ getRes.found /\ getRes.data = lastWrite.data
    /\ items[getRes.key].ExpiresAt = lastWrite.expires

(***************************************************************************)
(* C14: Delete(k) removes k whether or not its entry has expired, changes  *)
(* nothing when k is absent, and leaves the data and expiry of every other *)
(* key as they were.                                                       *)
(***************************************************************************)
C14_DeleteFrame ==
    [][\A k \in DirectKeys :
          CallDelete(k)
              => /\ DOMAIN items' = (DOMAIN items) \ {k}
                 /\ \A j \in DOMAIN items' : items'[j] = items[j]
                 /\ (k \notin DOMAIN items => items' = items)]_vars

\* a Delete has removed the entry of its key, and another key is still cached
C14_Witness ==
    /\ lastWrite.op = "Delete" /\ lastWrite.had
    /\ lastWrite.key \notin DOMAIN items
    /\ DOMAIN items # {}

(***************************************************************************)
(* C15: a pass of the background sweep removes every entry whose ExpiresAt *)
(* has passed and no entry that has not expired, changes no entry it       *)
(* keeps, and so leaves the result of every Get as it was.                 *)
(***************************************************************************)
C15_SweepRemovesExactlyExpired ==
    [][Sweep
          => /\ DOMAIN items' = {k \in DOMAIN items : now <= items[k].ExpiresAt}
             /\ \A k \in DOMAIN items' : items'[k] = items[k]
             /\ \A k \in DirectKeys : Get(items', k) = Get(items, k)]_vars

\* a sweep has removed an expired entry and kept an entry that has not expired
C15_Witness ==
    /\ lastWrite.op = "cleanup" /\ lastWrite.had
    /\ \E k \in DOMAIN items : now <= items[k].ExpiresAt

(***************************************************************************)
(* C16: cache mutual exclusion.  While a Set, a Delete or a sweep pass     *)
(* holds the map, no other Get, Set, Delete or sweep pass holds it; only   *)
(* Get calls overlap with each other.                                      *)
(***************************************************************************)
C16_MutualExclusion ==
    \A t \in Threads :
        (Holds(t) /\ threads[t].op \in {"Set", "Delete", "cleanup"})
            => \A u \in Threads \ {t} : ~Holds(u)

\* two Get calls are inside the cache at once while a Set waits for the lock
C16_Witness ==
    \E t, u, v \in Threads :
        /\ t # u /\ t # v /\ u # v
        /\ Holds(t) /\ threads[t].op = "Get"
        /\ Holds(u) /\ threads[u].op = "Get"
        /\ threads[v].pc = "waiting" /\ threads[v].op = "Set"

(***************************************************************************)
(* C17 as stated: a graph or episodes handler that reads back a cached     *)
(* value of an unexpected shape refetches from the API and overwrites the  *)
(* entry: when such a request ends, the entry of its key holds a slice.    *)
(***************************************************************************)
C17_MismatchRefetchOverwrites ==
    [][\A p \in PageReqs, res \in FetchResults :
          (PageFetch(p, res) /\ pages[p].mismatch)
              => LET k == CacheKey(kind, AsyncUser) IN
                 k \in DOMAIN items' /\ IsTriplets(items'[k].Data)]_vars

(***************************************************************************)
(* C17 as amended: a cached value of an unexpected shape is treated as a   *)
(* cache miss.  The handler serves nothing from the cache and goes on to   *)
(* the API; when the fetch succeeds it overwrites the entry with the       *)
(* fetched slice (TTL 5 minutes) and serves it, and when the fetch fails   *)
(* it serves the empty state and leaves the entry as it is.  It never      *)
(* serves the mismatched value.                                            *)
(***************************************************************************)
C17_MismatchIsMiss ==
    [][\A p \in PageReqs :
          LET k == CacheKey(kind, AsyncUser)
              g == Get(items, k) IN
          /\ (PageCheck(p) /\ g.found /\ "Status" \in DOMAIN g.data)
                => /\ pages'[p].pc = "fetch"
                   /\ presp' = presp
                   /\ items' = items
          /\ \A res \in FetchResults :
                (PageFetch(p, res) /\ pages[p].mismatch)
                    => IF res.ok
                       THEN /\ items'[k] = [Data |-> Triplets(res.val),
                                            ExpiresAt |-> now + HandlerCacheTTL]
                            /\ presp'.from = "api" /\ presp'.val = Triplets(res.val)
                       ELSE /\ items' = items
                            /\ presp'.from = "empty"
          /\ presp'.from = "cache" => DOMAIN presp'.val = {"Triplets"}]_vars

\* a request that found an AsyncData value under its key has refetched, served
\* the fetched slice and left the slice in the cache
C17_Witness ==
    /\ presp.from = "api" /\ presp.mismatch
    /\ CacheKey(kind, AsyncUser) \in DOMAIN items
    /\ items[CacheKey(kind, AsyncUser)].Data = presp.val

(***************************************************************************)
(* C18 as stated: TrackDeletion(id) creates a job in state started with    *)
(* progress 0.                                                             *)
(***************************************************************************)
C18_TrackedAtProgressZero ==
    [][\A r \in Runs, u \in Users :
          DeleteUserEnhanced(r, u)
              => /\ u \in DOMAIN statuses'
                 /\ statuses'[u].Status = "started"
                 /\ statuses'[u].Progress = 0]_vars

(***************************************************************************)
(* C18 as amended: TrackDeletion(id) creates a job in state started with   *)
(* progress 10, the message "Starting user deletion...", no error and the  *)
(* current time as its start.                                              *)
(***************************************************************************)
C18_TrackedAtProgressTen ==
    [][\A r \in Runs, u \in Users :
          DeleteUserEnhanced(r, u)
              => /\ u \in DOMAIN statuses'
                 /\ statuses'[u].UserID = u
                 /\ statuses'[u].Status = "started"
                 /\ statuses'[u].Progress = 10
                 /\ statuses'[u].Message = "Starting user deletion..."
                 /\ statuses'[u].Error = ""
                 /\ statuses'[u].StartedAt = now]_vars

\* a job has just been registered and its pipeline has written nothing yet
C18_Witness ==
    /\ \E r \in Runs : pc[r] = "fetching_sessions"
    /\ \A r \in Runs : pc[r] \in {"idle", "fetching_sessions"}
    /\ \E u \in DOMAIN statuses :
          statuses[u].Status = "started" /\ statuses[u].Progress = 10

(***************************************************************************)
(* C19: a TrackDeletion for an id that already has a job replaces the      *)
(* record by a fresh one in state started, whatever the state of the       *)
(* existing job (started, in a phase, completed or failed).                *)
(***************************************************************************)
C19_TrackReplaces ==
    [][\A r \in Runs, u \in Users :
          (DeleteUserEnhanced(r, u) /\ u \in DOMAIN statuses)
              => /\ statuses'[u] = NewDeletion(u)
                 /\ statuses'[u].Status = "started"
                 /\ statuses'[u].Error = ""
                 /\ \A v \in DOMAIN statuses \ {u} :
                        v \in DOMAIN statuses' /\ statuses'[v] = statuses[v]]_vars

\* the job of a run that had ended in a terminal state has been replaced by
\* the fresh record of a second request for the same id
C19_Witness ==
    \E r1, r2 \in Runs :
        /\ r1 # r2 /\ UserOf(r1) = UserOf(r2)
        /\ pc[r1] = "done" /\ timers[r1] = "sleeping"
        /\ pc[r2] = "fetching_sessions"
        /\ UserOf(r2) \in DOMAIN statuses
        /\ statuses[UserOf(r2)].Status = "started"

(***************************************************************************)
(* C20 as stated: MarkFailed sets the state failed and records the error   *)
(* and leaves the progress of the job unchanged; MarkCompleted sets the    *)
(* progress to 100.                                                        *)
(***************************************************************************)
C20_MarkFailedKeepsProgress ==
    [][\A r \in Runs :
          LET u == UserOf(r) IN
          /\ ((FailJob(r) \/ Recover(r)) /\ u \in DOMAIN statuses)
                => /\ statuses'[u].Status = "failed"
                   /\ statuses'[u].Progress = statuses[u].Progress
          /\ (CompleteJob(r) /\ u \in DOMAIN statuses)
                => statuses'[u].Progress = 100]_vars

(***************************************************************************)
(* C20 as amended: MarkFailed sets the state failed, records the error and *)
(* resets the progress of the job to 0; MarkCompleted sets the state       *)
(* completed and the progress to 100.  Both leave the id and the start     *)
(* time of the job alone.                                                  *)
(***************************************************************************)
C20_MarkFailedResetsProgress ==
    [][\A r \in Runs :
          LET u == UserOf(r) IN
          /\ ((FailJob(r) \/ Recover(r)) /\ u \in DOMAIN statuses)
                => /\ statuses'[u].Status = "failed"
                   /\ statuses'[u].Error = (IF FailJob(r) THEN loc[r].err ELSE PanicMessage)
                   /\ statuses'[u].Progress = 0
                   /\ statuses'[u].UserID = statuses[u].UserID
                   /\ statuses'[u].StartedAt = statuses[u].StartedAt
          /\ (CompleteJob(r) /\ u \in DOMAIN statuses)
                => /\ statuses'[u].Status = "completed"
                   /\ statuses'[u].Progress = 100
                   /\ statuses'[u].UserID = statuses[u].UserID
                   /\ statuses'[u].StartedAt = statuses[u].StartedAt]_vars

\* a job whose primary deletion failed at progress 80 is failed, carries the
\* error and shows progress 0
C20_Witness ==
    \E r \in Runs :
        /\ pc[r] = "done" /\ hist[r].primary \in PrimaryErrs
        /\ UserOf(r) \in DOMAIN statuses
        /\ statuses[UserOf(r)].Status = "failed"
        /\ statuses[UserOf(r)].Error = loc[r].err
        /\ statuses[UserOf(r)].Progress = 0

(***************************************************************************)
(* C21: what GetStatus reports                                             *)
(***************************************************************************)
\* the requests that registered a job for u
RunsOf(u) == {r \in Runs : pc[r] # "idle" /\ UserOf(r) = u}

\* the step is the firing of an expiry scheduled for the id u
Expires(u) == \E r \in Runs : AutoCleanup(r) /\ UserOf(r) = u

C22_TerminalReadableUntilExpiry ==
    [][\A u \in Users :
          (JobTerminal(u) /\ ~Expires(u) /\ ~Tracks(u))
              => /\ GetStatus(statuses', u).exists
                 /\ GetStatus(statuses', u).status.Status = statuses[u].Status]_vars

(***************************************************************************)
(* C23: a failure to list the user's sessions                              *)
(***************************************************************************)
\* C23, as claimed: a failure to list the user's sessions degrades to an empty
\* dependent list and the pipeline deletes no sessions: no DeleteSession call
\* is made by a pipeline one of whose session listings has failed.
C23_ListFailureDeletesNothing ==
    [][\A r \in Runs, res \in DeleteSessionResults :
          DwcDeleteSession(r, res) => ~hist[r].listFailed]_vars

\* C23, amended: a failure of the listing that feeds the session loop (the
\* GetUserSessions call of DeleteUserWithCleanup) degrades to an empty list:
\* the loop is skipped, so no session is deleted, the pipeline goes on to the
\* primary deletion, and whether it then marks the job completed or failed is
\* decided by the result of the primary deletion alone.  A failure of the
\* handler's own, earlier listing only changes the stage it reports
\* (sessions_partial, then no_sessions): DeleteUserWithCleanup lists again.
C23_ListFailureIsEmptyList ==
    /\ [](\A r \in Runs :
            /\ loc[r].nilSessions
                 => /\ loc[r].n = 0
                    /\ pc[r] \in {"dwc_graph_group", "dwc_graph_database",
                                  "dwc_delete_user", "recover"}
            /\ pc[r] = "dwc_delete_session" => loc[r].n >= 1 /\ loc[r].i <= loc[r].n
            /\ pc[r] \in {"clearing_cache", "delete_user_key", "delete_episodes_key",
                          "delete_graph_key", "mark_completed"}
                 => hist[r].primary = "ok"
            /\ pc[r] = "mark_failed"
                 => /\ hist[r].primary \in PrimaryErrs
                    /\ loc[r].err = WrapPrimaryError(hist[r].primary))
    /\ [][\A r \in Runs :
            /\ DwcGetSessions(r, [kind |-> "err", n |-> 0])
                     => pc'[r] = AfterSessions /\ loc'[r].nilSessions
            /\ HandlerGetSessions(r, [kind |-> "err", n |-> 0])
                     => pc'[r] = "sessions_fetched" /\ loc'[r].listErr
            /\ (UpdateDeletingSessions(r) /\ hist[r].listFailed
                  /\ UserOf(r) \in DOMAIN statuses)
                     => statuses'[UserOf(r)].Status = "no_sessions"]_vars

\* C23 witness: the listing of DeleteUserWithCleanup has failed, no session
\* was deleted, and the pipeline is at the primary deletion
C23_Witness ==
    \E r \in Runs :
        /\ loc[r].nilSessions
        /\ pc[r] = "dwc_delete_user"
        /\ hist[r].failedSessions = {}

(***************************************************************************)
(* C24: a panic in the background pipeline                                 *)
(***************************************************************************)
\* C24: a panic anywhere in the background deletion pipeline is caught at the
\* orchestration boundary and converted to job state Failed, and it never
\* propagates out of the background task: a pipeline in which a call panicked
\* is at its deferred recover or has ended, and when the recover has run the
\* task has ended normally and the job of the id is in the tracker, Failed,
\* with the panic as its error.
C24_PanicBecomesFailed ==
    /\ [](\A r \in Runs : hist[r].panicked => pc[r] \in {"recover", "done"})
    /\ [][\A r \in Runs :
            Recover(r) => /\ pc'[r] = "done"
                          /\ JobTerminal(UserOf(r))'
                          /\ statuses'[UserOf(r)].Status = "failed"
                          /\ statuses'[UserOf(r)].Error = PanicMessage]_vars

(***************************************************************************)
(* C25, C26: the graph-cleanup probe                                       *)
(***************************************************************************)
\* the answers that end the probe: success and not-found
Answers == {"200", "404"}

\* C25: the graph-cleanup probe tries its candidate URLs strictly one after
\* another in list order and stops at the first candidate that answers success
\* or not-found: the j-th group deletion goes to the j-th candidate of the
\* list, it is made only when all earlier ones failed, once a candidate has
\* answered 200 or 404 no further candidate is contacted, and the database
\* deletion goes to the candidate that answered.
C25_ProbeSequentialStopsAtFirstAnswer ==
    /\ [](/\ Len(probe.requests) <= Len(GraphServiceURLs)
          /\ \A j \in 1 .. Len(probe.requests) :
                /\ probe.requests[j].url = GraphServiceURLs[j]
                /\ j < Len(probe.requests) => probe.requests[j].res \notin Answers
          /\ \A d \in 1 .. Len(probe.db) :
                /\ probe.requests[Len(probe.requests)].res \in Answers
                /\ probe.db[d].url = probe.requests[Len(probe.requests)].url)
    /\ [][(/\ Len(probe.requests) > 0
           /\ probe.requests[Len(probe.requests)].res \in Answers)
              => probe'.requests = probe.requests]_vars

\* C25 witness: two candidates failed, the third answered not-found, and the
\* probe returned nil without a request to the fourth
C25_Witness ==
    /\ probe.pc = "returned"
    /\ Len(probe.requests) = 3
    /\ probe.requests[3].res = "404"
    /\ probe.ret = ProbeNil

\* every candidate of the list was tried and none answered
AllCandidatesFailed ==
    /\ Len(probe.requests) = Len(GraphServiceURLs)
    /\ \A j \in 1 .. Len(probe.requests) : probe.requests[j].res \notin Answers

\* C26, as claimed: if every candidate of the probe fails, the probe reports
\* an aggregate failure that lists all attempted candidates and the reason
\* each one failed.
C26_AggregateListsCandidatesAndReasons ==
    (probe.pc = "returned" /\ AllCandidatesFailed)
        => /\ probe.ret # ProbeNil
           /\ \A j \in 1 .. Len(probe.requests) :
                 /\ \E k \in 1 .. Len(probe.ret) : probe.ret[k] = probe.requests[j].url
                 /\ \E k \in 1 .. Len(probe.ret) : probe.ret[k] = probe.requests[j].res

\* C26, amended: if every candidate of the probe fails, the probe reports an
\* aggregate failure that states how many candidates were tried; and it
\* reports a failure in no other case.
C26_AggregateCountsCandidates ==
    probe.pc = "returned"
        => IF AllCandidatesFailed
           THEN /\ probe.ret # ProbeNil
                /\ \E k \in 1 .. Len(probe.ret) :
                      probe.ret[k] = ToString(Len(probe.requests))
           ELSE probe.ret = ProbeNil

\* C26 witness: all four candidates failed, for different reasons, and the
\* probe returned its error
C26_Witness ==
    /\ probe.pc = "returned"
    /\ AllCandidatesFailed
    /\ probe.requests[1].res = "transport_error"
    /\ probe.requests[4].res = "500"
    /\ probe.ret # ProbeNil

(***************************************************************************)
(* C27, C28: the deletion of the user's sessions                           *)
(***************************************************************************)
\* C27: while a user's sessions are being deleted, at no instant are more
\* than K = 3 session-delete operations running at once.  (The loop of
\* DeleteUserWithCleanup makes its DeleteSession calls one after another, so
\* the calls that have started and not returned are never more than one.)
C27_AtMostKRunning ==
    /\ Cardinality(fan.running) <= MaxWorkers
    /\ fan.running \subseteq 1 .. fan.n

\* C27 witness: more than K sessions are listed, some are already deleted,
\* and a DeleteSession call is running
C27_Witness ==
    /\ fan.n > MaxWorkers
    /\ Len(fan.outcomes) >= 2
    /\ Cardinality(fan.running) = 1

\* C28: dependent deletion yields exactly one outcome per listed session:
\* every session of the list gets exactly one delete attempt, in the loop's
\* order, and an attempt that fails neither skips nor aborts the attempts for
\* the remaining sessions: while the loop runs, the sessions before fan.i are
\* those that have an outcome or a running call, none twice; an error return
\* leaves the loop running; and when the loop has ended every one of the n
\* sessions has its one outcome.  (A call that panics is not a failed attempt:
\* it unwinds the whole pipeline to the deferred recover, as in C24.)
C28_OneOutcomePerSession ==
    /\ [](/\ \A j \in 1 .. Len(fan.outcomes) : fan.outcomes[j].session = j
          /\ fan.pc = "loop"
               => /\ Len(fan.outcomes) + Cardinality(fan.running) = fan.i - 1
                  /\ \A s \in fan.running : s > Len(fan.outcomes) /\ s < fan.i
          /\ fan.pc = "returned"
               => /\ Len(fan.outcomes) = fan.n
                  /\ \A s \in 1 .. fan.n :
                        Cardinality({j \in 1 .. Len(fan.outcomes) :
                                        fan.outcomes[j].session = s}) = 1)
    /\ [][\A s \in 1 .. MaxListed :
            FanReturn(s, "err") => fan'.pc = "loop" /\ fan'.i = fan.i]_vars

\* C28 witness: the loop has ended for a list of at least three sessions of
\* which the first failed to delete and the last was deleted
C28_Witness ==
    /\ fan.pc = "returned"
    /\ fan.n >= 3
    /\ fan.outcomes[1].res = "err"
    /\ fan.outcomes[fan.n].res = "ok"

(***************************************************************************)
(* C29: a cached error of an async load                                    *)
(***************************************************************************)
\* the entry of the loader's key holds an error result that has expired
ErrorExpired ==
    LET key == CacheKey(kind, AsyncUser)
    IN  /\ key \in DOMAIN items
        /\ items[key].Data.Status = "error"
        /\ now > items[key].ExpiresAt

\* C29: an error result of an async load is cached with a shorter TTL than a
\* success result of the same loader, and once the error entry has expired
\* the next call for that key (a call that finds the expired error and no load
\* goroutine of the key running) starts a new load instead of returning the old error:
\* it is not answered from the cache, it finds no sentinel, and it sets the
\* sentinel, starts a load goroutine and answers loading.
C29_ExpiredErrorReloads ==
    /\ [](ErrorTTL(kind) < SuccessTTL(kind))
    /\ [][\A l \in LoaderIds, res \in FetchResults :
            LoadFinish(l, res)
                => items'[CacheKey(kind, AsyncUser)].ExpiresAt =
                       now + (IF res.ok THEN SuccessTTL(kind) ELSE ErrorTTL(kind))]_vars
    /\ [][\A q \in AsyncReqs :
            /\ (CheckCached(q) /\ ErrorExpired)
                   => apc'[q] = "check_loading" /\ aresp' = aresp
            /\ (CheckLoading(q) /\ ErrorExpired
                  /\ \A l \in LoaderIds : loaders[l].pc = "free")
                   => apc'[q] = "start_load" /\ aresp' = aresp
            /\ (StartLoad(q) /\ ErrorExpired)
                   => /\ \E l \in LoaderIds :
                            loaders[l].pc = "free" /\ loaders'[l].pc = "fetch"
                      /\ Get(items', LoadingKey(kind, AsyncUser)).found
                      /\ aresp'.req = q /\ aresp'.val.Status = "loading"]_vars

\* C29 witness: the cached error has expired and a call made after the expiry
\* (the sentinel it set is younger than the error's expiry time) has started
\* the load that is now in flight
C29_Witness ==
    /\ ErrorExpired
    /\ InFlight # {}
    /\ LoadingKey(kind, AsyncUser) \in DOMAIN items
    /\ items[LoadingKey(kind, AsyncUser)].ExpiresAt - LoadingTTL(kind)
           > items[CacheKey(kind, AsyncUser)].ExpiresAt
    /\ aresp.val.Status = "loading"

(***************************************************************************)
(* C30: what an expiry removes                                             *)
(***************************************************************************)
\* C30: an active (non-terminal) deletion job is never removed from the
\* tracker: the expiry scheduled by MarkCompleted or MarkFailed removes only
\* the job it was scheduled for, also when TrackDeletion registers a new job
\* for the same id before that expiry fires.  Whenever an expiry fires, the
\* record it removes is in a terminal state.
C30_ExpiryRemovesOnlyTerminal ==
    [][\A r \in Runs :
          (AutoCleanup(r) /\ UserOf(r) \in DOMAIN statuses)
              => statuses[UserOf(r)].Status \in Terminal]_vars

(***************************************************************************)
(* C31: an async load in flight while the deletion clears the cache        *)
(***************************************************************************)
\* C31: after a deletion job has reached Completed, no later read of
\* graph:<id> or episodes:<id> returns data loaded before the deletion: a
\* load that was in flight when the job cleared the cache cannot put its
\* result back.  In no state is the job of the id Completed while a read of
\* the key finds the result that such a load has stored.
C31_NoStaleResultAfterCompleted ==
    \A l \in LoaderIds :
        ~ ( /\ AsyncUser \in DOMAIN statuses
            /\ statuses[AsyncUser].Status = "completed"
            /\ loaders[l].stale
            /\ loaders[l].pc = "defer"
            /\ loaders[l].result.ok
            /\ Get(items, CacheKey(kind, AsyncUser)).found
            /\ Get(items, CacheKey(kind, AsyncUser)).data
                   = LoadResult(kind, loaders[l].result) )

(***************************************************************************)
(* C32: a status record handed to a poller by GetStatus is a consistent    *)
(* snapshot: the status, message, progress and error of the response are   *)
(* those of the tracker's record at one of the instants at which the       *)
(* handler looked at it, also when UpdateStatus, MarkCompleted or          *)
(* MarkFailed runs for that id while the poller is reading the record.     *)
(***************************************************************************)
C32_ConsistentSnapshot ==
    poll.pc = "respond" => poll.snap \in poll.seen

(***************************************************************************)
(* C33: an async load never leaves its key stuck in Loading.  Once the     *)
(* sentinel or a result is stored for the key, no step of the handlers and *)
(* their goroutines leaves the key with neither (the goroutine stores the  *)
(* result, success or error, before its deferred Delete removes the        *)
(* sentinel; an entry whose TTL has run out still counts as stored), and   *)
(* the sentinel is always removed: it is stored only while a load          *)
(* goroutine has not finished.                                             *)
(***************************************************************************)
C33_NeverStuckInLoading ==
    /\ [] ( (\A l \in LoaderIds : loaders[l].pc = "free")
                => LoadingKey(kind, AsyncUser) \notin DOMAIN items )
    /\ [][ (DOMAIN items) \cap {LoadingKey(kind, AsyncUser), CacheKey(kind, AsyncUser)} # {}
              => (DOMAIN items') \cap {LoadingKey(kind, AsyncUser), CacheKey(kind, AsyncUser)} # {}
         ]_vars

\* a load that returned an error has finished: the error is stored under the
\* key and the sentinel is gone
C33_Witness ==
    /\ \A l \in LoaderIds : loaders[l].pc = "free"
    /\ LoadingKey(kind, AsyncUser) \notin DOMAIN items
    /\ CacheKey(kind, AsyncUser) \in DOMAIN items
    /\ items[CacheKey(kind, AsyncUser)].Data.Status = "error"

(***************************************************************************)
(* C34: every response of UserGraphAsync is an AsyncData record whose      *)
(* status is loading, success or error, for every sequence of calls to the *)
(* handlers that share the cache key graph:<id> (UserGraphAsync,           *)
(* UserGraph, UserGraphAPI).                                               *)
(***************************************************************************)
C34_AsyncResponseIsAsyncData ==
    (kind = "graph" /\ aresp.req # Nil)
        => /\ DOMAIN aresp.val = {"Status", "Data", "Error", "Progress"}
           /\ aresp.val.Status \in {"loading", "success", "error"}

\* the answers of the endpoints DeleteSession has tried, in the order tried
DsAnswers == [k \in 1..Len(dsess.requests) |-> dsess.requests[k].res]

(***************************************************************************)
(* C35: DeleteSession tries its endpoints in list order and returns        *)
(* success exactly when some endpoint answers 200 or 204 before any        *)
(* endpoint answers a status other than 200, 204 or 405: a transport error *)
(* or a 405 moves on to the next endpoint, any other status returns an     *)
(* error at once without trying the remaining endpoints, and exhausting    *)
(* the list returns an error.                                              *)
(***************************************************************************)
C35_DeleteSessionFirstDecisiveAnswer ==
    /\ \A k \in 1..Len(dsess.requests) :
          /\ dsess.requests[k].endpoint = Endpoints(dsess.sessionID)[k]
          /\ k < Len(dsess.requests)
                => (DsAnswers[k].err # Nil \/ DsAnswers[k].code = "405")
    /\ dsess.pc = "loop"
          => \A k \in 1..Len(dsess.requests) :
                DsAnswers[k].err # Nil \/ DsAnswers[k].code = "405"
    /\ dsess.pc = "returned"
          => LET n == Len(dsess.requests) IN
             /\ n >= 1
             /\ (dsess.ret = DsNil)
                   <=> (DsAnswers[n].err = Nil /\ DsAnswers[n].code \in {"200", "204"})
             /\ (DsAnswers[n].err # Nil \/ DsAnswers[n].code = "405")
                   => (n = Len(Endpoints(dsess.sessionID)) /\ dsess.ret # DsNil)

\* the first endpoint answered 405, the second deleted the session, and
\* DeleteSession returned nil
C35_Witness ==
    /\ dsess.pc = "returned"
    /\ Len(dsess.requests) = 2
    /\ DsAnswers[1].code = "405"
    /\ DsAnswers[2].code = "204"
    /\ dsess.ret = DsNil

(***************************************************************************)
(* C36: once a graph-cleanup candidate has answered the group deletion     *)
(* with success or not-found, the probe returns success whatever the       *)
(* outcome of the follow-up database deletion on that candidate (request   *)
(* error or any status), and it contacts no other candidate: the step that *)
(* follows the answer ends the probe with a nil error and adds no group    *)
(* deletion, and a probe that has made a database deletion has returned    *)
(* nil.                                                                    *)
(***************************************************************************)
C36_DatabaseOutcomeIgnored ==
    /\ [] ( Len(probe.db) > 0 => (probe.pc = "returned" /\ probe.ret = ProbeNil) )
    /\ [][ probe.pc = "database"
              => /\ probe'.pc = "returned"
                 /\ probe'.ret = ProbeNil
                 /\ probe'.requests = probe.requests
                 /\ Len(probe'.db) = 1
                 /\ probe'.db[1].url = probe.requests[Len(probe.requests)].url
         ]_vars

\* the second candidate answered the group deletion with 200, its database
\* deletion came back with 500, and the probe returned nil with two
\* candidates never contacted
C36_Witness ==
    /\ probe.pc = "returned"
    /\ Len(probe.requests) = 2
    /\ probe.requests[2].res = "200"
    /\ Len(probe.db) = 1
    /\ probe.db[1].res = "500"
    /\ probe.ret = ProbeNil

====
